---- MODULE Spec2Model ----
(***************************************************************************)
(* pMuTT, pmutt.empirical.nasa: NASA7 and NASA9 polynomials.               *)
(*                                                                         *)
(* Real numbers are exact rationals <<n, d>> (d > 0, lowest terms), so the *)
(* properties checked are those of the formulas, without rounding.  A      *)
(* denominator of 0 stands for a non-finite float: <<1, 0>> is np.inf.     *)
(*                                                                         *)
(* Spec     : Nasa.from_data (the NASA7 fit).                              *)
(* Spec9    : Nasa9.from_data (the NASA9 fit).                             *)
(* SpecEval : the Nasa and Nasa9 constructors, their getters, and the      *)
(*            Nasa9 dictionary round trip.                                 *)
(* SpecMut9 : a Nasa9 object whose segment list is replaced or mutated.    *)
(* SpecFn   : the helper functions of the fits, called on their own, and   *)
(*            pmutt.io.cantera.obj_to_CTI.                                 *)
(* SpecVib  : the wavenumbers of HarmonicVib and QRRHOVib                  *)
(*            (pmutt.statmech.vib).                                        *)
(***************************************************************************)
EXTENDS Integers, Sequences, FiniteSets

VARIABLES
    pc,        \* position of the driver: which call is in progress
    T_in,      \* from_data argument T (sample temperatures)
    CpoR_in,   \* from_data argument CpoR
    T_mid_in,  \* from_data argument T_mid: [none |-> BOOLEAN, val |-> Seq]
    ref,       \* from_data arguments [T_ref, HoRT_ref, SoR_ref]
    loop,      \* locals of _fit_CpoR while its loop runs
    fit,       \* what _fit_CpoR / _fit_CpoR9 returned, then the offsets
    warns,     \* RuntimeWarnings emitted so far by the call in progress
    nasa,      \* the Nasa object (NASA7)
    nasa9,     \* the Nasa9 object
    json,      \* the dictionary written by to_dict
    loaded,    \* the object from_dict built from the dictionary
    ev,        \* the last call: arguments and results
    vib        \* the HarmonicVib or QRRHOVib object

vars == <<pc, T_in, CpoR_in, T_mid_in, ref, loop, fit, warns, nasa, nasa9, json, loaded, ev,
         vib>>

----------------------------------------------------------------------------
(* Bounds of the model *)

\* number of sample temperatures of a NASA7 data set: T = 1..NSamp
NSamp == 4
\* largest constant coefficient of the polynomial grid of np.polyfit
MaxCoef == 2
\* longest user-supplied list of candidate break points
MaxCands == 3
\* largest temperature bound of a polynomial built by its constructor
MaxT == 3

----------------------------------------------------------------------------
(* Exact rational arithmetic: the floats of the program *)

Abs(n) == IF n < 0 THEN -n ELSE n

\* The one element of a singleton set.  {e(v) : v \in {x}} evaluates x once,
\* however often e uses v.
Only(S) == CHOOSE r \in S : TRUE

RECURSIVE GCD(_, _)
GCD(a, b) == IF b = 0 THEN a ELSE GCD(b, a % b)

Norm(n, d) ==
    Only({IF g = 0 THEN <<0, 0>>
          ELSE IF d < 0 THEN <<(-n) \div g, (-d) \div g>>
          ELSE <<n \div g, d \div g>> : g \in {GCD(Abs(n), Abs(d))}})

Rat(n) == <<n, 1>>
Zero == <<0, 1>>
One == <<1, 1>>
inf == <<1, 0>>
nan == <<0, 0>>
\* np.isfinite
isfinite(x) == x[2] # 0

\* sums and products cancel common factors first, to keep the integers small
RAdd(x, y) ==
    Only({Only({IF a[2] = 0 /\ b[2] = 0 THEN (IF a = b THEN a ELSE <<0, 0>>)
                ELSE IF g = 0 THEN Norm(a[1] * b[2] + b[1] * a[2], a[2] * b[2])
                ELSE Norm(a[1] * (b[2] \div g) + b[1] * (a[2] \div g),
                          (a[2] \div g) * b[2]) : g \in {GCD(a[2], b[2])}}) :
            a \in {x}, b \in {y}})
RNeg(x) == Only({<<-a[1], a[2]>> : a \in {x}})
RSub(x, y) == RAdd(x, RNeg(y))
RMul(x, y) ==
    Only({Only({IF g = 0 \/ h = 0 THEN Norm(a[1] * b[1], a[2] * b[2])
                ELSE Norm((a[1] \div g) * (b[1] \div h), (a[2] \div h) * (b[2] \div g)) :
                  g \in {GCD(Abs(a[1]), b[2])}, h \in {GCD(Abs(b[1]), a[2])}}) :
            a \in {x}, b \in {y}})
RDiv(x, y) ==
    Only({IF b[1] < 0 THEN Norm(-(a[1] * b[2]), a[2] * (-b[1]))
          ELSE Norm(a[1] * b[2], a[2] * b[1]) : a \in {x}, b \in {y}})
RLt(x, y) == Only({a[1] * b[2] < b[1] * a[2] : a \in {x}, b \in {y}})
RLe(x, y) == Only({a[1] * b[2] <= b[1] * a[2] : a \in {x}, b \in {y}})

RECURSIVE RPow(_, _)
RPow(x, k) == IF k = 0 THEN One ELSE RMul(x, RPow(x, k - 1))

RECURSIVE RSum(_)
RSum(s) == IF s = <<>> THEN Zero ELSE RAdd(s[1], RSum(Tail(s)))

\* np.dot(a, b)
dot(a, b) == Only({RSum([i \in DOMAIN u |-> RMul(u[i], v[i])]) : u \in {a}, v \in {b}})

\* np.mean
mean(s) == Only({RDiv(RSum(v), Rat(Len(v))) : v \in {s}})

\* np.zeros(n)
zeros(n) == [i \in 1..n |-> Zero]

\* np.log on the temperatures of the model, to one decimal place
log(T) ==
    LET tenths == <<0, 7, 11, 14, 16, 18, 19, 21, 22, 23>>
    IN  Norm(tenths[T], 10)

----------------------------------------------------------------------------
(* The polynomial evaluators (PolynomialEvaluator) *)

get_nasa_CpoR(a, T) ==
    LET t == Rat(T)
        T_arr == <<One, t, RPow(t, 2), RPow(t, 3), RPow(t, 4), Zero, Zero>>
    IN  dot(a, T_arr)

get_nasa_HoRT(a, T) ==
    LET t == Rat(T)
        T_arr == <<One, RDiv(t, Rat(2)), RDiv(RPow(t, 2), Rat(3)),
                   RDiv(RPow(t, 3), Rat(4)), RDiv(RPow(t, 4), Rat(5)),
                   RDiv(One, t), Zero>>
    IN  dot(a, T_arr)

get_nasa_SoR(a, T) ==
    LET t == Rat(T)
        T_arr == <<log(T), t, RDiv(RPow(t, 2), Rat(2)),
                   RDiv(RPow(t, 3), Rat(3)), RDiv(RPow(t, 4), Rat(4)),
                   Zero, One>>
    IN  dot(a, T_arr)

get_nasa9_CpoR(a, T) ==
    LET t == Rat(T)
        T_arr == <<RDiv(One, RPow(t, 2)), RDiv(One, t), One, t, RPow(t, 2),
                   RPow(t, 3), RPow(t, 4), Zero, Zero>>
    IN  dot(a, T_arr)

get_nasa9_HoRT(a, T) ==
    LET t == Rat(T)
        T_arr == <<RNeg(RDiv(One, RPow(t, 2))), RDiv(log(T), t), One,
                   RDiv(t, Rat(2)), RDiv(RPow(t, 2), Rat(3)),
                   RDiv(RPow(t, 3), Rat(4)), RDiv(RPow(t, 4), Rat(5)),
                   RDiv(One, t), Zero>>
    IN  dot(a, T_arr)

get_nasa9_SoR(a, T) ==
    LET t == Rat(T)
        T_arr == <<RDiv(RNeg(RDiv(One, RPow(t, 2))), Rat(2)),
                   RNeg(RDiv(One, t)), log(T), t, RDiv(RPow(t, 2), Rat(2)),
                   RDiv(RPow(t, 3), Rat(3)), RDiv(RPow(t, 4), Rat(4)),
                   Zero, One>>
    IN  dot(a, T_arr)

----------------------------------------------------------------------------
(* Sequences and numpy helpers *)

Range(s) == {s[i] : i \in DOMAIN s}

\* sum of a sequence of integers
RECURSIVE SumLen(_)
SumLen(s) == IF s = <<>> THEN 0 ELSE s[Len(s)] + SumLen(SubSeq(s, 1, Len(s) - 1))

\* a[::-1]
Reverse(s) == [i \in DOMAIN s |-> s[Len(s) + 1 - i]]

\* np.extract(condition, arr): the elements whose condition holds, in order
RECURSIVE extract(_, _)
extract(condition, arr) ==
    IF arr = <<>> THEN <<>>
    ELSE (IF condition[1] THEN <<arr[1]>> ELSE <<>>)
         \o extract(Tail(condition), Tail(arr))

\* min(list) of a non-empty list of rationals
\* min(s) of Python: the first element, replaced by each later one that
\* compares smaller (a nan never does, and nothing is smaller than a nan)
RECURSIVE RMin(_)
RMin(s) ==
    IF Len(s) = 1 THEN s[1]
    ELSE Only({IF RLt(s[Len(s)], m) THEN s[Len(s)] ELSE m :
                 m \in {RMin(SubSeq(s, 1, Len(s) - 1))}})

IMin(S) == CHOOSE m \in S : \A x \in S : m <= x
IMax(S) == CHOOSE m \in S : \A x \in S : m >= x

\* np.polyval(p, x): coefficients from the highest degree down
RECURSIVE polyval(_, _)
polyval(p, x) ==
    IF p = <<>> THEN Zero
    ELSE RAdd(RMul(polyval(SubSeq(p, 1, Len(p) - 1), x), Rat(x)), p[Len(p)])

\* sum of squared residuals of polynomial p on the points (x, y)
SSE(p, x, y) ==
    RSum([i \in DOMAIN x |-> RPow(RSub(polyval(p, x[i]), y[i]), 2)])

\* The coefficient vectors np.polyfit(deg=4) chooses among in the model:
\* <<c4, c3, c2, c1, c0>>, highest degree first.
PolyGrid ==
    {<<Zero, Zero, Rat(c2), Rat(c1), Rat(c0)>> :
        c2 \in 0..1, c1 \in 0..1, c0 \in 0..MaxCoef}

\* np.polyfit(x, y, deg=4): a minimiser of the sum of squared residuals.
\* The model minimises over PolyGrid; every minimiser is a possible result
\* (an under-determined system has several).  x must be non-empty.
\* On data with a non-finite value the least-squares solution is nan.
polyfit(x, y) ==
    IF \E i \in DOMAIN y : ~isfinite(y[i]) THEN {[i \in 1..5 |-> nan]}
    ELSE
    Only({{p \in PolyGrid : \A q \in PolyGrid : RLe(sse[p], sse[q])} :
            sse \in {[p \in PolyGrid |-> SSE(p, x, y)]}})

----------------------------------------------------------------------------
(* _fit_CpoR, _get_CpoR_MSE, _fit_HoRT, _fit_SoR: the NASA7 fit *)

isnan(x) == x = <<0, 0>>

\* np.isclose(x, 0.) in exact arithmetic
isclose0(x) == x[2] # 0 /\ x[1] = 0

\* scipy.stats.variation squared: variance / mean^2 (nan for 0/0)
variation2(CpoR) ==
    LET m == mean(CpoR)
        v == mean([i \in DOMAIN CpoR |-> RPow(RSub(CpoR[i], m), 2)])
    IN  RDiv(v, RMul(m, m))

\* the test that skips the fit
IsDegenerate(CpoR) ==
    \/ isclose0(mean(CpoR)) /\ isnan(variation2(CpoR))
    \/ isclose0(variation2(CpoR))
    \/ \E i \in DOMAIN CpoR : isnan(CpoR[i])

\* T[int(len(T)/2)]
MedianSample(T) == T[(Len(T) \div 2) + 1]

\* T[5:-5]
DefaultCandidates(T) == SubSeq(T, 6, Len(T) - 5)

low_condition(T, T_mid) == [i \in DOMAIN T |-> T[i] <= T_mid]
high_condition(T, T_mid) == [i \in DOMAIN T |-> T[i] > T_mid]

\* the warnings of _get_CpoR_MSE for the partition sizes
MSEWarnings(n_low, n_high) ==
    (IF n_low < 5 THEN {"low"} ELSE {}) \cup (IF n_high < 5 THEN {"high"} ELSE {})

\* the MSE of _get_CpoR_MSE, given the two fitted polynomials
CpoR_MSE(T, CpoR, T_mid, p_low, p_high) ==
    LET Tl == extract(low_condition(T, T_mid), T)
        Th == extract(high_condition(T, T_mid), T)
        CpoR_low_fit == [i \in DOMAIN Tl |-> polyval(p_low, Tl[i])]
        CpoR_high_fit == [i \in DOMAIN Th |-> polyval(p_high, Th[i])]
        CpoR_fit == CpoR_low_fit \o CpoR_high_fit
    IN  mean([i \in DOMAIN CpoR_fit |-> RPow(RSub(CpoR_fit[i], CpoR[i]), 2)])

\* a loop that also stops at a candidate as good as the one before it
EarlyStop_on_equal(mse, prev_mse) == RLe(prev_mse, mse)

\* the loop's early stop: "if mse > prev_mse: break"
EarlyStop(mse, prev_mse) == RLt(prev_mse, mse)

\* np.where(min_mse == mse_list)[0][0], 1-based
MinIndex(mse_list) ==
    LET min_mse == RMin(mse_list)
        where == {i \in DOMAIN mse_list : mse_list[i] = min_mse /\ ~isnan(min_mse)}
    IN  IF where = {} THEN 0 ELSE IMin(where)

\* np.concatenate((p[::-1], np.zeros(2)))
ReverseAndPad(p) == Reverse(p) \o zeros(2)

\* a6 of both segments from the reference alone, without the offset at T_mid
_fit_HoRT_no_offset(T_ref, HoRT_ref, a_low, a_high, T_mid) ==
    <<RMul(RSub(HoRT_ref, get_nasa_HoRT(a_low, T_ref)), Rat(T_ref)),
      RMul(RSub(HoRT_ref, get_nasa_HoRT(a_high, T_ref)), Rat(T_ref))>>

_fit_HoRT(T_ref, HoRT_ref, a_low, a_high, T_mid) ==
    LET a6_low_out == RMul(RSub(HoRT_ref, get_nasa_HoRT(a_low, T_ref)), Rat(T_ref))
        a6_high == RMul(RSub(HoRT_ref, get_nasa_HoRT(a_high, T_ref)), Rat(T_ref))
        H_low_last_T == RAdd(get_nasa_HoRT(a_low, T_mid), RDiv(a6_low_out, Rat(T_mid)))
        H_high_first_T == RAdd(get_nasa_HoRT(a_high, T_mid), RDiv(a6_high, Rat(T_mid)))
        H_offset == RSub(H_low_last_T, H_high_first_T)
        a6_high_out == RMul(Rat(T_mid), RAdd(RDiv(a6_high, Rat(T_mid)), H_offset))
    IN  <<a6_low_out, a6_high_out>>

_fit_SoR(T_ref, SoR_ref, a_low, a_high, T_mid) ==
    LET a7_low_out == RSub(SoR_ref, get_nasa_SoR(a_low, T_ref))
        a7_high == RSub(SoR_ref, get_nasa_SoR(a_high, T_ref))
        S_low_last_T == RAdd(get_nasa_SoR(a_low, T_mid), a7_low_out)
        S_high_first_T == RAdd(get_nasa_SoR(a_high, T_mid), a7_high)
        S_offset == RSub(S_low_last_T, S_high_first_T)
        a7_high_out == RAdd(a7_high, S_offset)
    IN  <<a7_low_out, a7_high_out>>

----------------------------------------------------------------------------
(* The Nasa object and its getters *)

\* values of the variables while nothing is stored in them
NoArg == [none |-> TRUE, val |-> <<>>]
NoRef == [T_ref |-> 0, HoRT_ref |-> Zero, SoR_ref |-> Zero]
NoLoop == [T_mid |-> <<>>, i |-> 0, mse_list |-> <<>>, all_a_low |-> <<>>,
           all_a_high |-> <<>>, prev_mse |-> inf, brk |-> FALSE]
NoFit == [a_low |-> <<>>, a_high |-> <<>>, T_mid |-> 0, a |-> <<>>, alias |-> FALSE,
          cond |-> <<>>]
NoNasa == [T_low |-> 0, T_mid |-> <<>>, T_mid_is_list |-> FALSE, T_high |-> 0,
           a_low |-> <<>>, a_high |-> <<>>, misc_models |-> <<>>]
NoNasa9 == [nasas |-> <<>>, T_low |-> 0, T_high |-> 0, misc_models |-> <<>>]
NoJson == [none |-> TRUE]
NoVib == [class |-> "", imaginary_substitute |-> [none |-> TRUE], vib_wavenumbers |-> <<>>,
          _valid_vib_wavenumbers |-> <<>>, _valid_vib_temperatures |-> <<>>]
NoEv == [op |-> "none", T |-> 0, kw |-> 0, units |-> "", val |-> Zero,
         a |-> <<>>, seg |-> 0, warn |-> FALSE, raised |-> "none",
         arg |-> "", msg |-> <<>>,
         calls |-> [T_low |-> 0, T_high |-> 0, model |-> 0, minimize |-> 0],
         vals |-> <<>>, dtype |-> "", line_len |-> 0, max_line_len |-> 0,
         cti |-> [quoted |-> FALSE, lines |-> <<>>]]

\* Nasa.__init__: the attributes are stored as given, without any check.
\* A T_mid that is a Python list is kept with T_mid_is_list; a number x is <<x>>.
Nasa__init__(T_low, T_mid, T_mid_is_list, T_high, a_low, a_high, misc_models) ==
    [T_low |-> T_low, T_mid |-> T_mid, T_mid_is_list |-> T_mid_is_list,
     T_high |-> T_high, a_low |-> a_low, a_high |-> a_high,
     misc_models |-> misc_models]

\* a get_a that gives T = T_mid to the low segment
Nasa_get_a_le(self, T) ==
    IF self.T_mid_is_list /\ self.T_mid = <<>>
    THEN [a |-> <<>>, warn |-> FALSE, raised |-> "IndexError", obj |-> self]
    ELSE LET obj == [self EXCEPT !.T_mid = <<self.T_mid[1]>>,
                                 !.T_mid_is_list = FALSE]
         IN  IF T <= obj.T_mid[1]
             THEN [a |-> obj.a_low, warn |-> T < obj.T_low,
                   raised |-> "none", obj |-> obj]
             ELSE [a |-> obj.a_high, warn |-> T > obj.T_high,
                   raised |-> "none", obj |-> obj]

\* Nasa.get_a: [a, warn, raised, obj] where obj is the object afterwards
Nasa_get_a(self, T) ==
    IF self.T_mid_is_list /\ self.T_mid = <<>>
    THEN [a |-> <<>>, warn |-> FALSE, raised |-> "IndexError", obj |-> self]
    ELSE LET obj == [self EXCEPT !.T_mid = <<self.T_mid[1]>>,
                                 !.T_mid_is_list = FALSE]
         IN  IF T < obj.T_mid[1]
             THEN [a |-> obj.a_low, warn |-> T < obj.T_low,
                   raised |-> "none", obj |-> obj]
             ELSE [a |-> obj.a_high, warn |-> T > obj.T_high,
                   raised |-> "none", obj |-> obj]

\* pmutt.mixture._get_mix_quantity: one value per misc model.  A misc model is
\* a record of its three dimensionless quantities; the mixture keyword argument
\* kw (0 when no keyword argument is passed) scales them.
_get_mix_quantity(misc_models, method_name, kw) ==
    [i \in DOMAIN misc_models |-> RMul(misc_models[i][method_name], Rat(1 + kw))]

\* pmutt.constants.R(units), to three decimal places
R(units) ==
    CASE units = "J/mol/K" -> Norm(8314, 1000)
      [] units = "cal/mol/K" -> Norm(1987, 1000)

\* '{}/K'.format(units)
PerK(units) ==
    CASE units = "J/mol" -> "J/mol/K"
      [] units = "cal/mol" -> "cal/mol/K"

\* the result of a getter: the value, whether get_a warned, what was raised,
\* and the object afterwards (get_a replaces a list T_mid by its first element)
Returned(val, r) ==
    [val |-> val, a |-> r.a, seg |-> 0, warn |-> r.warn, raised |-> r.raised,
     obj |-> r.obj]

Nasa_get_CpoR(self, T, kw) ==
    LET r == Nasa_get_a(self, T)
    IN  IF r.raised # "none" THEN Returned(Zero, r)
        ELSE Returned(RAdd(get_nasa_CpoR(r.a, T),
                 RSum(_get_mix_quantity(self.misc_models, "get_CpoR", kw))), r)

Nasa_get_HoRT(self, T, kw) ==
    LET r == Nasa_get_a(self, T)
    IN  IF r.raised # "none" THEN Returned(Zero, r)
        ELSE Returned(RAdd(get_nasa_HoRT(r.a, T),
                 RSum(_get_mix_quantity(self.misc_models, "get_HoRT", kw))), r)

Nasa_get_SoR(self, T, kw) ==
    LET r == Nasa_get_a(self, T)
    IN  IF r.raised # "none" THEN Returned(Zero, r)
        ELSE Returned(RAdd(get_nasa_SoR(r.a, T),
                 RSum(_get_mix_quantity(self.misc_models, "get_SoR", kw))), r)

\* a get_GoRT that adds the entropy term
Nasa_get_GoRT_sum(self, T, kw) ==
    LET h == Nasa_get_HoRT(self, T, kw)
    IN  IF h.raised # "none" THEN h
        ELSE LET s == Nasa_get_SoR(h.obj, T, kw)
             IN  [s EXCEPT !.val = RAdd(h.val, s.val),
                           !.warn = h.warn \/ s.warn]

Nasa_get_GoRT(self, T, kw) ==
    LET h == Nasa_get_HoRT(self, T, kw)
    IN  IF h.raised # "none" THEN h
        ELSE LET s == Nasa_get_SoR(h.obj, T, kw)
             IN  [s EXCEPT !.val = RSub(h.val, s.val),
                           !.warn = h.warn \/ s.warn]

\* get_Cp calls self.get_CpoR(T=T): the keyword arguments are not passed on
Nasa_get_Cp(self, T, units, kw) ==
    LET r == Nasa_get_CpoR(self, T, 0)
    IN  [r EXCEPT !.val = RMul(r.val, R(units))]

Nasa_get_H(self, T, units, kw) ==
    LET r == Nasa_get_HoRT(self, T, kw)
    IN  [r EXCEPT !.val = RMul(RMul(r.val, Rat(T)), R(PerK(units)))]

Nasa_get_S(self, T, units, kw) ==
    LET r == Nasa_get_SoR(self, T, kw)
    IN  [r EXCEPT !.val = RMul(r.val, R(units))]

Nasa_get_G(self, T, units, kw) ==
    LET r == Nasa_get_GoRT(self, T, kw)
    IN  [r EXCEPT !.val = RMul(RMul(r.val, Rat(T)), R(PerK(units)))]

----------------------------------------------------------------------------
(* Nasa.from_data: the driver of the NASA7 fit *)

\* the sample temperatures of the model
SampleT == [i \in 1..NSamp |-> i]

\* the data sets: Cp/R stepping up from 1 to 5/2 at sample k (constant 5/2
\* for k = 1), stepping down from 5/2 to 1 at sample k, all zero, and
\* growing data with one nan, +inf or -inf
DataSets ==
    {[i \in 1..NSamp |-> IF i < k THEN Rat(1) ELSE Norm(5, 2)] : k \in 1..NSamp}
    \cup {[i \in 1..NSamp |-> IF i < k THEN Norm(5, 2) ELSE Rat(1)] : k \in 2..NSamp}
    \cup {zeros(NSamp)}
    \cup {[i \in 1..NSamp |-> IF i = 2 THEN v ELSE Rat(i)] : v \in {nan, inf, RNeg(inf)}}

\* the reference points <<HoRT_ref, SoR_ref>>
RefPoints == {<<Rat(1), Norm(-3, 2)>>, <<Norm(-3, 2), Rat(2)>>}

IsInjective(s) == \A i, j \in DOMAIN s : i # j => s[i] # s[j]

\* the T_mid argument: None, or a list of distinct candidates
\* (a single number is the list of length one, as _fit_CpoR makes it)
TMidArgs ==
    {NoArg} \cup
    {[none |-> FALSE, val |-> s] :
        s \in UNION {{q \in [1..n -> 1..NSamp] : IsInjective(q)} : n \in 1..MaxCands}}

\* from_data is called; _fit_CpoR runs up to its loop
FromData ==
    /\ pc = "idle"
    /\ \E CpoR \in DataSets, tm \in TMidArgs :
        /\ T_in' = SampleT
        /\ CpoR_in' = CpoR
        /\ T_mid_in' = tm
        /\ IF IsDegenerate(CpoR)
           THEN /\ fit' = [NoFit EXCEPT !.a_low = zeros(7), !.a_high = zeros(7),
                                        !.T_mid = MedianSample(SampleT)]
                /\ loop' = NoLoop
                /\ pc' = "fitted"
           ELSE /\ loop' = [NoLoop EXCEPT !.T_mid =
                               IF tm.none THEN DefaultCandidates(SampleT) ELSE tm.val]
                /\ fit' = NoFit
                /\ pc' = "fit_loop"
    /\ UNCHANGED <<ref, warns, nasa, nasa9, json, loaded, ev, vib>>

\* one iteration of the loop of _fit_CpoR: _get_CpoR_MSE on the next candidate
FitCandidate ==
    /\ pc = "fit_loop"
    /\ ~loop.brk
    /\ loop.i < Len(loop.T_mid)
    /\ LET T_m == loop.T_mid[loop.i + 1]
           Tl == extract(low_condition(T_in, T_m), T_in)
           Th == extract(high_condition(T_in, T_m), T_in)
           Cl == extract(low_condition(T_in, T_m), CpoR_in)
           Ch == extract(high_condition(T_in, T_m), CpoR_in)
       IN  /\ warns' = warns \cup MSEWarnings(Len(Tl), Len(Th))
           /\ IF Tl = <<>> \/ Th = <<>>
              THEN \* np.polyfit: expected non-empty vector for x
                   /\ pc' = "raised"
                   /\ ev' = [NoEv EXCEPT !.op = "from_data", !.raised = "TypeError"]
                   /\ UNCHANGED loop
              ELSE
              \/ \* np.polyfit on non-finite data may fail: SVD did not converge
                 /\ \E i \in DOMAIN CpoR_in : ~isfinite(CpoR_in[i])
                 /\ pc' = "raised"
                 /\ ev' = [NoEv EXCEPT !.op = "from_data", !.raised = "LinAlgError"]
                 /\ UNCHANGED loop
              \/ \E p_low \in polyfit(Tl, Cl), p_high \in polyfit(Th, Ch) :
                   LET mse == CpoR_MSE(T_in, CpoR_in, T_m, p_low, p_high)
                   IN  /\ loop' = [loop EXCEPT
                               !.i = @ + 1,
                               !.mse_list = Append(@, mse),
                               !.all_a_low = Append(@, p_low),
                               !.all_a_high = Append(@, p_high),
                               !.brk = EarlyStop(mse, loop.prev_mse),
                               !.prev_mse = IF EarlyStop(mse, loop.prev_mse)
                                            THEN @ ELSE mse]
                       /\ UNCHANGED <<pc, ev>>
    /\ UNCHANGED <<T_in, CpoR_in, T_mid_in, ref, fit, nasa, nasa9, json, loaded, vib>>

\* after the loop: the minimum-MSE candidate is selected and _fit_CpoR returns
FitSelect ==
    /\ pc = "fit_loop"
    /\ loop.brk \/ loop.i = Len(loop.T_mid)
    /\ IF loop.mse_list = <<>>
       THEN \* min() arg is an empty sequence
            /\ pc' = "raised"
            /\ ev' = [NoEv EXCEPT !.op = "from_data", !.raised = "ValueError"]
            /\ UNCHANGED fit
       ELSE IF MinIndex(loop.mse_list) = 0
       THEN \* np.where(min_mse == mse_list)[0][0] with min_mse = nan
            /\ pc' = "raised"
            /\ ev' = [NoEv EXCEPT !.op = "from_data", !.raised = "IndexError"]
            /\ UNCHANGED fit
       ELSE LET min_i == MinIndex(loop.mse_list)
            IN  /\ fit' = [NoFit EXCEPT
                            !.a_low = ReverseAndPad(loop.all_a_low[min_i]),
                            !.a_high = ReverseAndPad(loop.all_a_high[min_i]),
                            !.T_mid = loop.T_mid[min_i]]
                /\ pc' = "fitted"
                /\ UNCHANGED ev
    /\ UNCHANGED <<T_in, CpoR_in, T_mid_in, ref, loop, warns, nasa, nasa9, json, loaded, vib>>

\* the rest of from_data: _fit_HoRT, _fit_SoR and the constructor.
\* T_ref, HoRT_ref and SoR_ref are arguments of from_data that are first
\* read here.
FitOffsets ==
    /\ pc = "fitted"
    /\ \E T_ref \in 1..NSamp, rp \in RefPoints :
       \E a6 \in {_fit_HoRT(T_ref, rp[1], fit.a_low, fit.a_high, fit.T_mid)} :
       \E a_low6 \in {[fit.a_low EXCEPT ![6] = a6[1]]},
          a_high6 \in {[fit.a_high EXCEPT ![6] = a6[2]]} :
       \E a7 \in {_fit_SoR(T_ref, rp[2], a_low6, a_high6, fit.T_mid)} :
       \E a_low \in {[a_low6 EXCEPT ![7] = a7[1]]},
          a_high \in {[a_high6 EXCEPT ![7] = a7[2]]} :
            /\ ref' = [T_ref |-> T_ref, HoRT_ref |-> rp[1], SoR_ref |-> rp[2]]
            /\ fit' = [fit EXCEPT !.a_low = a_low, !.a_high = a_high]
            /\ nasa' = Nasa__init__(IMin(Range(T_in)), <<fit.T_mid>>, FALSE,
                                    IMax(Range(T_in)), a_low, a_high, <<>>)
    /\ loop' = NoLoop
    /\ pc' = "obj"
    /\ UNCHANGED <<T_in, CpoR_in, T_mid_in, warns, nasa9, json, loaded, ev, vib>>

Init ==
    /\ pc = "idle"
    /\ T_in = <<>>
    /\ CpoR_in = <<>>
    /\ T_mid_in = NoArg
    /\ ref = NoRef
    /\ loop = NoLoop
    /\ fit = NoFit
    /\ warns = {}
    /\ nasa = NoNasa
    /\ nasa9 = NoNasa9
    /\ json = NoJson
    /\ loaded = NoNasa9
    /\ ev = NoEv
    /\ vib = NoVib

\* Nasa.from_model(name, model, T_low, T_high).  np.linspace(T_low, T_high,
\* num=20.) raises TypeError where numpy takes no float for num; where it
\* does, the argument fun=_get_T_mid_nasa is evaluated next, a name that
\* the module neither defines nor imports: NameError.  from_data is not
\* reached.
FromModel ==
    /\ pc = "idle"
    /\ \E T_low \in 1..MaxT, T_high \in 1..MaxT :
        /\ T_low < T_high
        /\ \E raised \in {"TypeError", "NameError"} :
            ev' = [NoEv EXCEPT !.op = "from_model", !.raised = raised,
                               !.calls = [NoEv.calls EXCEPT !.T_low = T_low,
                                                            !.T_high = T_high]]
    /\ pc' = "raised"
    /\ UNCHANGED <<T_in, CpoR_in, T_mid_in, ref, loop, fit, warns, nasa, nasa9, json, loaded, vib>>

Next == FromData \/ FitCandidate \/ FitSelect \/ FitOffsets \/ FromModel

Spec == Init /\ [][Next]_vars

----------------------------------------------------------------------------
(* The Nasa constructor and the Nasa getters, called by a driver *)

\* coefficient vectors with every term present
CoefLow == <<Rat(1), Rat(2), Rat(-1), Rat(1), Rat(3), Rat(2), Rat(-2)>>
CoefHigh == <<Rat(2), Rat(-1), Rat(1), Rat(2), Rat(1), Rat(-3), Rat(1)>>

\* a misc model: its dimensionless quantities
MiscModel == [get_CpoR |-> Rat(1), get_HoRT |-> Rat(2), get_SoR |-> Rat(3)]
MiscChoices == {<<>>, <<MiscModel>>}

\* the T_mid argument of the constructor: a number, or a list of numbers
TMidValues ==
    {<<FALSE, <<x>>>> : x \in 1..MaxT}
    \cup {<<TRUE, q>> : q \in UNION {[1..n -> 1..MaxT] : n \in 0..2}}

Units == {"J/mol", "cal/mol"}
UnitsPerK == {"J/mol/K", "cal/mol/K"}
EvalT == 1..(MaxT + 1)
Kw == 0..1

\* Nasa(name, T_low, T_mid, T_high, a_low, a_high, misc_models=...)
NasaNew ==
    /\ pc = "idle"
    /\ \E T_low \in 1..MaxT, T_high \in 1..MaxT, tm \in TMidValues, mm \in MiscChoices :
        nasa' = Nasa__init__(T_low, tm[2], tm[1], T_high, CoefLow, CoefHigh, mm)
    /\ pc' = "obj"
    /\ UNCHANGED <<T_in, CpoR_in, T_mid_in, ref, loop, fit, warns, nasa9, json, loaded, ev, vib>>

\* the result of a getter call is recorded, and the object it leaves
Record(op, T, units, kw, r) ==
    /\ ev' = [NoEv EXCEPT !.op = op, !.T = T, !.kw = kw, !.units = units,
                          !.val = r.val, !.a = r.a, !.seg = r.seg,
                          !.warn = r.warn, !.raised = r.raised]
    /\ nasa' = r.obj
    /\ pc' = "called"
    /\ UNCHANGED <<T_in, CpoR_in, T_mid_in, ref, loop, fit, warns, nasa9, json, loaded, vib>>

GetA ==
    /\ pc = "obj"
    /\ \E T \in EvalT :
        Record("get_a", T, "", 0, Returned(Zero, Nasa_get_a(nasa, T)))

GetCpoR ==
    /\ pc = "obj"
    /\ \E T \in EvalT, kw \in Kw :
        Record("get_CpoR", T, "", kw, Nasa_get_CpoR(nasa, T, kw))

GetHoRT ==
    /\ pc = "obj"
    /\ \E T \in EvalT, kw \in Kw :
        Record("get_HoRT", T, "", kw, Nasa_get_HoRT(nasa, T, kw))

GetSoR ==
    /\ pc = "obj"
    /\ \E T \in EvalT, kw \in Kw :
        Record("get_SoR", T, "", kw, Nasa_get_SoR(nasa, T, kw))

GetGoRT ==
    /\ pc = "obj"
    /\ \E T \in EvalT, kw \in Kw :
        Record("get_GoRT", T, "", kw, Nasa_get_GoRT(nasa, T, kw))

GetCp ==
    /\ pc = "obj"
    /\ \E T \in EvalT, kw \in Kw, units \in UnitsPerK :
        Record("get_Cp", T, units, kw, Nasa_get_Cp(nasa, T, units, kw))

GetH ==
    /\ pc = "obj"
    /\ \E T \in EvalT, kw \in Kw, units \in Units :
        Record("get_H", T, units, kw, Nasa_get_H(nasa, T, units, kw))

GetS ==
    /\ pc = "obj"
    /\ \E T \in EvalT, kw \in Kw, units \in UnitsPerK :
        Record("get_S", T, units, kw, Nasa_get_S(nasa, T, units, kw))

GetG ==
    /\ pc = "obj"
    /\ \E T \in EvalT, kw \in Kw, units \in Units :
        Record("get_G", T, units, kw, Nasa_get_G(nasa, T, units, kw))

----------------------------------------------------------------------------
(* SingleNasa9 and Nasa9: the objects and their getters *)

SingleNasa9__init__(T_low, T_high, a) == [T_low |-> T_low, T_high |-> T_high, a |-> a]

\* pmutt._apply_numpy_operation(quantity, operation): np.min or np.max of
\* the list; [val, raised].  Either raises ValueError on an empty list.
_apply_numpy_operation(quantity, operation) ==
    IF quantity = <<>> THEN [val |-> 0, raised |-> "ValueError"]
    ELSE IF operation = "min"
         THEN [val |-> IMin(Range(quantity)), raised |-> "none"]
         ELSE [val |-> IMax(Range(quantity)), raised |-> "none"]

\* a _get_T_limit that takes every limit other than 'min' for 'max'
Nasa9_get_T_limit_lax(_nasas, limit) ==
    IF limit = "min"
    THEN _apply_numpy_operation([i \in DOMAIN _nasas |-> _nasas[i].T_low], "min")
    ELSE _apply_numpy_operation([i \in DOMAIN _nasas |-> _nasas[i].T_high], "max")

\* Nasa9._get_T_limit: [val, raised]
Nasa9_get_T_limit(_nasas, limit) ==
    IF limit \notin {"min", "max"} THEN [val |-> 0, raised |-> "ValueError"]
    ELSE IF limit = "min"
         THEN _apply_numpy_operation([i \in DOMAIN _nasas |-> _nasas[i].T_low], limit)
         ELSE _apply_numpy_operation([i \in DOMAIN _nasas |-> _nasas[i].T_high], limit)

\* Nasa9.__init__ and the nasas setter: the list is copied, the bounds derived
Nasa9__init__(nasas, misc_models) ==
    [nasas |-> nasas,
     T_low |-> Nasa9_get_T_limit(nasas, "min").val,
     T_high |-> Nasa9_get_T_limit(nasas, "max").val,
     misc_models |-> misc_models]

\* a _get_nasa that returns the last segment containing T
Nasa9_get_nasa_last(self, T) ==
    LET hit == {i \in DOMAIN self.nasas :
                    T <= self.nasas[i].T_high /\ T >= self.nasas[i].T_low}
    IN  IF hit = {} THEN [seg |-> 0, raised |-> "ValueError"]
        ELSE [seg |-> IMax(hit), raised |-> "none"]

\* Nasa9._get_nasa: the index of the first segment whose closed interval
\* holds T, or ValueError
Nasa9_get_nasa(self, T) ==
    LET hit == {i \in DOMAIN self.nasas :
                    T <= self.nasas[i].T_high /\ T >= self.nasas[i].T_low}
    IN  IF hit = {} THEN [seg |-> 0, raised |-> "ValueError"]
        ELSE [seg |-> IMin(hit), raised |-> "none"]

Returned9(self, val, r) ==
    [val |-> val, a |-> IF r.seg = 0 THEN <<>> ELSE self.nasas[r.seg].a,
     seg |-> r.seg, warn |-> FALSE, raised |-> r.raised]

Nasa9_get_CpoR(self, T, kw) ==
    LET r == Nasa9_get_nasa(self, T)
    IN  IF r.raised # "none" THEN Returned9(self, Zero, r)
        ELSE Returned9(self, RAdd(get_nasa9_CpoR(self.nasas[r.seg].a, T),
                 RSum(_get_mix_quantity(self.misc_models, "get_CpoR", kw))), r)

Nasa9_get_HoRT(self, T, kw) ==
    LET r == Nasa9_get_nasa(self, T)
    IN  IF r.raised # "none" THEN Returned9(self, Zero, r)
        ELSE Returned9(self, RAdd(get_nasa9_HoRT(self.nasas[r.seg].a, T),
                 RSum(_get_mix_quantity(self.misc_models, "get_HoRT", kw))), r)

Nasa9_get_SoR(self, T, kw) ==
    LET r == Nasa9_get_nasa(self, T)
    IN  IF r.raised # "none" THEN Returned9(self, Zero, r)
        ELSE Returned9(self, RAdd(get_nasa9_SoR(self.nasas[r.seg].a, T),
                 RSum(_get_mix_quantity(self.misc_models, "get_SoR", kw))), r)

Nasa9_get_GoRT(self, T, kw) ==
    LET h == Nasa9_get_HoRT(self, T, kw)
        s == Nasa9_get_SoR(self, T, kw)
    IN  IF h.raised # "none" THEN h ELSE [s EXCEPT !.val = RSub(h.val, s.val)]

\* get_Cp calls self.get_CpoR(T=T): the keyword arguments are not passed on
Nasa9_get_Cp(self, T, units, kw) ==
    LET r == Nasa9_get_CpoR(self, T, 0)
    IN  [r EXCEPT !.val = RMul(r.val, R(units))]

Nasa9_get_H(self, T, units, kw) ==
    LET r == Nasa9_get_HoRT(self, T, kw)
    IN  [r EXCEPT !.val = RMul(RMul(r.val, Rat(T)), R(PerK(units)))]

Nasa9_get_S(self, T, units, kw) ==
    LET r == Nasa9_get_SoR(self, T, kw)
    IN  [r EXCEPT !.val = RMul(r.val, R(units))]

Nasa9_get_G(self, T, units, kw) ==
    LET r == Nasa9_get_GoRT(self, T, kw)
    IN  [r EXCEPT !.val = RMul(RMul(r.val, Rat(T)), R(PerK(units)))]

\* 9-coefficient vectors with every term present
Coef9A == <<Rat(1), Rat(2), Rat(-1), Rat(1), Rat(3), Rat(2), Rat(-2), Rat(1), Rat(2)>>
Coef9B == <<Rat(2), Rat(-1), Rat(1), Rat(2), Rat(1), Rat(-3), Rat(1), Rat(-1), Rat(3)>>

\* the segment lists given to the constructor: up to two segments with any
\* bounds (gaps, overlaps and reversed bounds included), or none
SegmentLists ==
    {<<>>}
    \cup {<<SingleNasa9__init__(l, h, Coef9A)>> : l \in 1..MaxT, h \in 1..MaxT}
    \cup {<<SingleNasa9__init__(l1, h1, Coef9A), SingleNasa9__init__(l2, h2, Coef9B)>> :
            l1 \in 1..MaxT, h1 \in 1..MaxT, l2 \in 1..MaxT, h2 \in 1..MaxT}

\* Nasa9(name, nasas, misc_models=...)
Nasa9New ==
    /\ pc = "idle"
    /\ \E nasas \in SegmentLists, mm \in MiscChoices :
        IF Nasa9_get_T_limit(nasas, "min").raised # "none"
        THEN /\ pc' = "called"
             /\ ev' = [NoEv EXCEPT !.op = "Nasa9", !.raised = "ValueError"]
             /\ UNCHANGED nasa9
        ELSE /\ nasa9' = Nasa9__init__(nasas, mm)
             /\ pc' = "obj9"
             /\ UNCHANGED ev
    /\ UNCHANGED <<T_in, CpoR_in, T_mid_in, ref, loop, fit, warns, nasa, json, loaded, vib>>

Record9(op, T, units, kw, r) ==
    /\ ev' = [NoEv EXCEPT !.op = op, !.T = T, !.kw = kw, !.units = units,
                          !.val = r.val, !.a = r.a, !.seg = r.seg,
                          !.warn = r.warn, !.raised = r.raised]
    /\ pc' = "called9"
    /\ UNCHANGED <<T_in, CpoR_in, T_mid_in, ref, loop, fit, warns, nasa, nasa9, json, loaded, vib>>

Get9Nasa ==
    /\ pc = "obj9"
    /\ \E T \in EvalT :
        Record9("_get_nasa", T, "", 0, Returned9(nasa9, Zero, Nasa9_get_nasa(nasa9, T)))

Get9CpoR ==
    /\ pc = "obj9"
    /\ \E T \in EvalT, kw \in Kw :
        Record9("get_CpoR", T, "", kw, Nasa9_get_CpoR(nasa9, T, kw))

Get9HoRT ==
    /\ pc = "obj9"
    /\ \E T \in EvalT, kw \in Kw :
        Record9("get_HoRT", T, "", kw, Nasa9_get_HoRT(nasa9, T, kw))

Get9SoR ==
    /\ pc = "obj9"
    /\ \E T \in EvalT, kw \in Kw :
        Record9("get_SoR", T, "", kw, Nasa9_get_SoR(nasa9, T, kw))

Get9GoRT ==
    /\ pc = "obj9"
    /\ \E T \in EvalT, kw \in Kw :
        Record9("get_GoRT", T, "", kw, Nasa9_get_GoRT(nasa9, T, kw))

Get9Cp ==
    /\ pc = "obj9"
    /\ \E T \in EvalT, kw \in Kw, units \in UnitsPerK :
        Record9("get_Cp", T, units, kw, Nasa9_get_Cp(nasa9, T, units, kw))

Get9H ==
    /\ pc = "obj9"
    /\ \E T \in EvalT, kw \in Kw, units \in Units :
        Record9("get_H", T, units, kw, Nasa9_get_H(nasa9, T, units, kw))

Get9S ==
    /\ pc = "obj9"
    /\ \E T \in EvalT, kw \in Kw, units \in UnitsPerK :
        Record9("get_S", T, units, kw, Nasa9_get_S(nasa9, T, units, kw))

Get9G ==
    /\ pc = "obj9"
    /\ \E T \in EvalT, kw \in Kw, units \in Units :
        Record9("get_G", T, units, kw, Nasa9_get_G(nasa9, T, units, kw))

----------------------------------------------------------------------------
(* to_dict and from_dict: a dictionary is a function on its keys *)

\* EmpiricalBase.to_dict: the keys of the base class
Base_to_dict(self) ==
    [name |-> "name", elements |-> "elements", statmech_model |-> "None",
     misc_models |-> self.misc_models]

\* dict with one more key
DictSet(d, k, v) == [x \in DOMAIN d \cup {k} |-> IF x = k THEN v ELSE d[x]]
\* dict without a key
DictDel(d, k) == [x \in DOMAIN d \ {k} |-> d[x]]

SingleNasa9_to_dict(self) ==
    [class |-> "SingleNasa9", type |-> "singlenasa9", T_low |-> self.T_low,
     T_high |-> self.T_high, a |-> self.a]

Nasa9_to_dict(self) ==
    LET d0 == Base_to_dict(self)
        d1 == DictSet(d0, "class", "Nasa9")
        d2 == DictSet(d1, "type", "nasa9")
        d3 == DictSet(d2, "nasa", [i \in DOMAIN self.nasas |->
                                       SingleNasa9_to_dict(self.nasas[i])])
    IN  DictSet(d3, "n_sites", 1)

\* pmutt.io.json.remove_class
remove_class(json_obj) == DictDel(json_obj, "class")

\* the keys that from_dict reads with json_obj[...], in the order it reads them
Nasa9_from_dict_reads == <<"nasas", "statmech_model", "misc_models">>
SingleNasa9_from_dict_reads == <<"nasas", "statmech_model", "misc_models">>

\* the first key of reads that d lacks (the KeyError), or "none"
MissingKey(d, reads) ==
    LET miss == {i \in DOMAIN reads : reads[i] \notin DOMAIN d}
    IN  IF miss = {} THEN "none" ELSE reads[IMin(miss)]

\* SingleNasa9.from_dict: [obj, raised]
SingleNasa9_from_dict(json_obj) ==
    LET d == remove_class(json_obj)
    IN  IF MissingKey(d, SingleNasa9_from_dict_reads) # "none"
        THEN [obj |-> SingleNasa9__init__(0, 0, <<>>), raised |-> "KeyError"]
        ELSE [obj |-> SingleNasa9__init__(d.T_low, d.T_high, d.a), raised |-> "none"]

\* Nasa9.from_dict: [obj, raised, key]
Nasa9_from_dict(json_obj) ==
    LET d == remove_class(json_obj)
        k == MissingKey(d, Nasa9_from_dict_reads)
    IN  IF k # "none"
        THEN [obj |-> NoNasa9, raised |-> "KeyError", key |-> k]
        ELSE LET segs == [i \in DOMAIN d.nasas |-> SingleNasa9_from_dict(d.nasas[i])]
             IN  IF \E i \in DOMAIN segs : segs[i].raised # "none"
                 THEN [obj |-> NoNasa9, raised |-> "KeyError", key |-> "nasas"]
                 ELSE [obj |-> Nasa9__init__([i \in DOMAIN segs |-> segs[i].obj],
                                             d.misc_models),
                       raised |-> "none", key |-> "none"]

\* p.to_dict()
ToDict9 ==
    /\ pc = "obj9"
    /\ json' = Nasa9_to_dict(nasa9)
    /\ pc' = "dict9"
    /\ UNCHANGED <<T_in, CpoR_in, T_mid_in, ref, loop, fit, warns, nasa, nasa9, loaded, ev, vib>>

\* Nasa9.from_dict(d)
FromDict9 ==
    /\ pc = "dict9"
    /\ LET r == Nasa9_from_dict(json)
       IN  /\ loaded' = r.obj
           /\ ev' = [NoEv EXCEPT !.op = "from_dict", !.raised = r.raised]
    /\ pc' = "loaded9"
    /\ UNCHANGED <<T_in, CpoR_in, T_mid_in, ref, loop, fit, warns, nasa, nasa9, json, vib>>

\* the driver drops the result and may call again (not after an exception)
Return ==
    /\ pc \in {"called", "called9"}
    /\ ev.raised = "none"
    /\ pc' = IF pc = "called" THEN "obj" ELSE "obj9"
    /\ ev' = NoEv
    /\ T_in' = <<>>
    /\ UNCHANGED <<CpoR_in, T_mid_in, ref, loop, fit, warns, nasa, nasa9, json, loaded, vib>>

\* the getters called with a sequence of temperatures ----------------------

\* the element types of the sequence T: integers, or floats
Dtypes == {"int", "float"}

\* storing a float in an array of integers: the fraction is cut off
astype_int(x) ==
    IF x[1] >= 0 THEN Rat(x[1] \div x[2]) ELSE Rat(-((-x[1]) \div x[2]))

\* the array the results are stored in: np.zeros(len(T)) (floats) in
\* get_CpoR, np.zeros_like(T) (the element type of T) in get_HoRT and get_SoR
stored(method_name, dtype, x) ==
    IF method_name # "get_CpoR" /\ dtype = "int" THEN astype_int(x) ELSE x

\* the else branch of the getter: the value for one temperature
Nasa_get_scalar(self, method_name, T, kw) ==
    CASE method_name = "get_CpoR" -> Nasa_get_CpoR(self, T, kw)
      [] method_name = "get_HoRT" -> Nasa_get_HoRT(self, T, kw)
      [] method_name = "get_SoR" -> Nasa_get_SoR(self, T, kw)

\* the loop "for i, T_i in enumerate(T)" of a Nasa getter from element i on:
\* [vals, warn, raised, obj]
RECURSIVE Nasa_get_loop(_, _, _, _, _, _, _)
Nasa_get_loop(self, method_name, T, dtype, kw, i, acc) ==
    IF i > Len(T) THEN acc
    ELSE LET r == Nasa_get_scalar(acc.obj, method_name, T[i], kw)
         IN  IF r.raised # "none"
             THEN [acc EXCEPT !.raised = r.raised, !.obj = r.obj]
             ELSE Nasa_get_loop(self, method_name, T, dtype, kw, i + 1,
                      [vals |-> Append(acc.vals, stored(method_name, dtype, r.val)),
                       warn |-> acc.warn \/ r.warn, raised |-> "none",
                       obj |-> r.obj])

\* Nasa.get_CpoR, get_HoRT, get_SoR with an iterable T
Nasa_get_array(self, method_name, T, dtype, kw) ==
    Nasa_get_loop(self, method_name, T, dtype, kw, 1,
                  [vals |-> <<>>, warn |-> FALSE, raised |-> "none", obj |-> self])

\* the loop of Nasa9.get_HoRT with an iterable T from element i on:
\* [vals, raised].  SingleNasa9.get_HoRT makes np.array([T_i]); for an
\* integer T_i, T**-2 in get_nasa9_HoRT raises ValueError (integers to
\* negative integer powers).
RECURSIVE Nasa9_get_HoRT_loop(_, _, _, _, _, _)
Nasa9_get_HoRT_loop(self, T, dtype, kw, i, acc) ==
    IF i > Len(T) THEN acc
    ELSE LET r == Nasa9_get_HoRT(self, T[i], kw)
         IN  IF r.raised # "none" \/ dtype = "int"
             THEN [acc EXCEPT !.raised = "ValueError"]
             ELSE Nasa9_get_HoRT_loop(self, T, dtype, kw, i + 1,
                      [vals |-> Append(acc.vals, stored("get_HoRT", dtype, r.val)),
                       raised |-> "none"])

\* Nasa9.get_HoRT with an iterable T
Nasa9_get_HoRT_array(self, T, dtype, kw) ==
    Nasa9_get_HoRT_loop(self, T, dtype, kw, 1, [vals |-> <<>>, raised |-> "none"])

\* the sequences of temperatures given to the getters
EvalTs == {<<t>> : t \in EvalT} \cup {<<t, t + 1>> : t \in 1..MaxT}

GetArray ==
    /\ pc = "obj"
    /\ \E m \in {"get_CpoR", "get_HoRT", "get_SoR"}, T \in EvalTs, dtype \in Dtypes,
          kw \in Kw :
        LET r == Nasa_get_array(nasa, m, T, dtype, kw)
        IN  /\ ev' = [NoEv EXCEPT !.op = m, !.arg = "array", !.kw = kw,
                                  !.dtype = dtype, !.vals = r.vals,
                                  !.warn = r.warn, !.raised = r.raised]
            /\ T_in' = T
            /\ nasa' = r.obj
    /\ pc' = "called"
    /\ UNCHANGED <<CpoR_in, T_mid_in, ref, loop, fit, warns, nasa9, json, loaded, vib>>

Get9HoRTArray ==
    /\ pc = "obj9"
    /\ \E T \in EvalTs, dtype \in Dtypes, kw \in Kw :
        LET r == Nasa9_get_HoRT_array(nasa9, T, dtype, kw)
        IN  /\ ev' = [NoEv EXCEPT !.op = "get_HoRT", !.arg = "array", !.kw = kw,
                                  !.dtype = dtype, !.vals = r.vals,
                                  !.raised = r.raised]
            /\ T_in' = T
    /\ pc' = "called9"
    /\ UNCHANGED <<CpoR_in, T_mid_in, ref, loop, fit, warns, nasa, nasa9, json, loaded, vib>>

NextEval ==
    \/ GetArray \/ Get9HoRTArray
    \/ NasaNew \/ GetA \/ GetCpoR \/ GetHoRT \/ GetSoR \/ GetGoRT
    \/ GetCp \/ GetH \/ GetS \/ GetG
    \/ Nasa9New \/ Get9Nasa \/ Get9CpoR \/ Get9HoRT \/ Get9SoR \/ Get9GoRT
    \/ Get9Cp \/ Get9H \/ Get9S \/ Get9G
    \/ ToDict9 \/ FromDict9
    \/ Return

SpecEval == Init /\ [][NextEval]_vars

----------------------------------------------------------------------------
(* Nasa9.from_data: _fit_CpoR9, _fit_HoRT9, _fit_SoR9 *)

\* longest list of interior break points
MaxBreaks == 2

\* a[i][k] = v on a list of rows.  When the rows are one and the same array
\* (alias), the assignment shows in every row.
SetCoef(a, i, k, v, alias) ==
    IF alias THEN [j \in DOMAIN a |-> [a[j] EXCEPT ![k] = v]]
    ELSE [a EXCEPT ![i][k] = v]

\* the offset added to a8 without the factor T_mid
a8_unscaled(a8_high, T_mid, HoRT_offset) == RAdd(a8_high, HoRT_offset)

\* T_mid*(a8_high/T_mid + HoRT_offset)
a8_continuity(a8_high, T_mid, HoRT_offset) ==
    RMul(Rat(T_mid), RAdd(RDiv(a8_high, Rat(T_mid)), HoRT_offset))

\* the loop of _fit_HoRT9 from row i on (rows 1-based: Python's a[i-1] is a[i])
RECURSIVE _fit_HoRT9_loop(_, _, _, _, _, _)
_fit_HoRT9_loop(a, T_ref, HoRT_ref, T_mid, alias, i) ==
    IF i > Len(a) - 1 THEN a
    ELSE LET a8_low == RMul(RSub(HoRT_ref, get_nasa9_HoRT(a[i], T_ref)), Rat(T_ref))
             a8_high == RMul(RSub(HoRT_ref, get_nasa9_HoRT(a[i + 1], T_ref)), Rat(T_ref))
             HoRT_low == RAdd(get_nasa9_HoRT(a[i], T_mid[i]),
                              RDiv(a8_low, Rat(T_mid[i])))
             HoRT_high == RAdd(get_nasa9_HoRT(a[i + 1], T_mid[i]),
                               RDiv(a8_high, Rat(T_mid[i])))
             HoRT_offset == RSub(HoRT_low, HoRT_high)
         IN  Only({_fit_HoRT9_loop(a2, T_mid[i], h, T_mid, alias, i + 1) :
                     a2 \in {SetCoef(a, i + 1, 8,
                                a8_continuity(a8_high, T_mid[i], HoRT_offset), alias)},
                     h \in {HoRT_low}})

_fit_HoRT9(T_ref, HoRT_ref, a, T_mid, alias) ==
    Only({_fit_HoRT9_loop(a1, T_ref, HoRT_ref, T_mid, alias, 1) :
            a1 \in {SetCoef(a, 1, 8,
                      RMul(RSub(HoRT_ref, get_nasa9_HoRT(a[1], T_ref)), Rat(T_ref)),
                      alias)}})

RECURSIVE _fit_SoR9_loop(_, _, _, _, _, _)
_fit_SoR9_loop(a, T_ref, SoR_ref, T_mid, alias, i) ==
    IF i > Len(a) - 1 THEN a
    ELSE LET a9_low == RSub(SoR_ref, get_nasa9_SoR(a[i], T_ref))
             a9_high == RSub(SoR_ref, get_nasa9_SoR(a[i + 1], T_ref))
             SoR_low == RAdd(get_nasa9_SoR(a[i], T_mid[i]), a9_low)
             SoR_high == RAdd(get_nasa9_SoR(a[i + 1], T_mid[i]), a9_high)
             SoR_offset == RSub(SoR_low, SoR_high)
         IN  Only({_fit_SoR9_loop(a2, T_mid[i], h, T_mid, alias, i + 1) :
                     a2 \in {SetCoef(a, i + 1, 9, RAdd(a9_high, SoR_offset), alias)},
                     h \in {SoR_low}})

_fit_SoR9(T_ref, SoR_ref, a, T_mid, alias) ==
    Only({_fit_SoR9_loop(a1, T_ref, SoR_ref, T_mid, alias, 1) :
            a1 \in {SetCoef(a, 1, 9, RSub(SoR_ref, get_nasa9_SoR(a[1], T_ref)), alias)}})

\* np.concatenate([[T_low], T_mid, [T_high]])
T_interval(T_low, T_mid, T_high) == <<T_low>> \o T_mid \o <<T_high>>

\* scipy.optimize.minimize(method='BFGS', x0=np.zeros(9)).x: some iterate.
\* The Jacobian is 0 for a8 and a9, so they stay at their start value 0.
minimize(T_cond, CpoR_cond) ==
    {<<Rat(1), Rat(2), Rat(-1), Rat(1), Rat(3), Rat(2), Rat(-2), Zero, Zero>>,
     <<Rat(2), Rat(-1), Rat(1), Rat(2), Rat(1), Rat(-3), Rat(1), Zero, Zero>>}

\* the data sets of the NASA9 fit: constant Cp/R, and Cp/R growing with T
DataSets9 == {[i \in 1..NSamp |-> Norm(5, 2)], [i \in 1..NSamp |-> Rat(i)]}

\* the T_mid argument: None (the default), or a list of distinct break points
TMidArgs9 ==
    {NoArg} \cup
    {[none |-> FALSE, val |-> s] :
        s \in UNION {{q \in [1..n -> 1..NSamp] : IsInjective(q)} : n \in 1..MaxBreaks}}

\* Nasa9.from_data is called; _fit_CpoR9 runs up to its loop
FromData9 ==
    /\ pc = "idle"
    /\ \E CpoR \in DataSets9, tm \in TMidArgs9 :
        /\ T_in' = SampleT
        /\ CpoR_in' = CpoR
        /\ T_mid_in' = tm
        /\ IF tm.none
           THEN \* len(None), or np.concatenate([[T_low], None, [T_high]])
                /\ pc' = "raised"
                /\ ev' = [NoEv EXCEPT !.op = "from_data",
                                      !.raised = IF IsDegenerate(CpoR) THEN "TypeError"
                                                 ELSE "ValueError"]
                /\ UNCHANGED fit
           ELSE IF IsDegenerate(CpoR)
           THEN \* [np.zeros(9)]*(len(T_mid)+1): the same array in every row
                /\ fit' = [NoFit EXCEPT !.a = [i \in 1..(Len(tm.val) + 1) |-> zeros(9)],
                                        !.alias = TRUE]
                /\ pc' = "fitted9"
                /\ UNCHANGED ev
           ELSE /\ fit' = NoFit
                /\ pc' = "fit9_loop"
                /\ UNCHANGED ev
    /\ UNCHANGED <<ref, loop, warns, nasa, nasa9, json, loaded, vib>>

\* one iteration of the loop of _fit_CpoR9: the fit of the next segment
FitSegment9 ==
    /\ pc = "fit9_loop"
    /\ LET Ti == T_interval(IMin(Range(T_in)), T_mid_in.val, IMax(Range(T_in)))
           n == Len(fit.a) + 1
           condition == [i \in DOMAIN T_in |-> T_in[i] > Ti[n] /\ T_in[i] <= Ti[n + 1]]
       IN  \E x \in minimize(extract(condition, T_in), extract(condition, CpoR_in)) :
            /\ fit' = [fit EXCEPT !.a = Append(@, x), !.cond = Append(@, condition)]
            /\ pc' = IF n = Len(Ti) - 1 THEN "fitted9" ELSE "fit9_loop"
    /\ UNCHANGED <<T_in, CpoR_in, T_mid_in, ref, loop, warns, nasa, nasa9, json, loaded, ev, vib>>

\* the rest of from_data: _fit_HoRT9, _fit_SoR9, the segments, the constructor
FitOffsets9 ==
    /\ pc = "fitted9"
    /\ \E T_ref \in 1..NSamp, rp \in RefPoints :
       \E a1 \in {_fit_HoRT9(T_ref, rp[1], fit.a, T_mid_in.val, fit.alias)} :
       \E a2 \in {_fit_SoR9(T_ref, rp[2], a1, T_mid_in.val, fit.alias)} :
       LET Ti == T_interval(IMin(Range(T_in)), T_mid_in.val, IMax(Range(T_in)))
       IN  /\ ref' = [T_ref |-> T_ref, HoRT_ref |-> rp[1], SoR_ref |-> rp[2]]
           /\ fit' = [fit EXCEPT !.a = a2]
           /\ nasa9' = Nasa9__init__(
                  [i \in DOMAIN a2 |-> SingleNasa9__init__(Ti[i], Ti[i + 1], a2[i])], <<>>)
    /\ pc' = "obj9"
    /\ UNCHANGED <<T_in, CpoR_in, T_mid_in, loop, warns, nasa, json, loaded, ev, vib>>

Next9 == FromData9 \/ FitSegment9 \/ FitOffsets9

Spec9 == Init /\ [][Next9]_vars

----------------------------------------------------------------------------
(* A Nasa9 object whose segment list is replaced or mutated *)

\* the message of the ValueError of _get_T_limit: the text around the value
T_limit_message(limit) ==
    <<"Unsupported value for limit: ", limit,
      ". The only supported values are \"min\" and \"max\"">>

\* the nasas setter on an existing object: [obj, raised].  self._nasas is
\* assigned before the bounds are derived, so an empty list stays assigned
\* when np.min raises.
Nasa9_set_nasas(self, val) ==
    IF Nasa9_get_T_limit(val, "min").raised # "none"
    THEN [obj |-> [self EXCEPT !.nasas = val], raised |-> "ValueError"]
    ELSE [obj |-> [self EXCEPT !.nasas = val,
                               !.T_low = Nasa9_get_T_limit(val, "min").val,
                               !.T_high = Nasa9_get_T_limit(val, "max").val],
          raised |-> "none"]

\* p.nasas = val, with a list of no or one segment
SetNasas9 ==
    /\ pc = "obj9"
    /\ \E val \in {q \in SegmentLists : Len(q) <= 1} :
        /\ nasa9' = Nasa9_set_nasas(nasa9, val).obj
        /\ ev' = [NoEv EXCEPT !.op = "nasas=", !.raised = Nasa9_set_nasas(nasa9, val).raised]
    /\ UNCHANGED <<pc, T_in, CpoR_in, T_mid_in, ref, loop, fit, warns, nasa, json, loaded, vib>>

\* p.nasas.pop(): the getter returns self._nasas itself, not a copy
PopNasas9 ==
    /\ pc = "obj9"
    /\ nasa9.nasas # <<>>
    /\ nasa9' = [nasa9 EXCEPT !.nasas = SubSeq(@, 1, Len(@) - 1)]
    /\ ev' = [NoEv EXCEPT !.op = "nasas.pop"]
    /\ UNCHANGED <<pc, T_in, CpoR_in, T_mid_in, ref, loop, fit, warns, nasa, json, loaded, vib>>

\* the caller pops from the list it gave to the constructor or the setter:
\* the object holds a copy of that list
PopCallerList9 ==
    /\ pc = "obj9"
    /\ ev' = [NoEv EXCEPT !.op = "caller_list.pop"]
    /\ UNCHANGED <<pc, T_in, CpoR_in, T_mid_in, ref, loop, fit, warns, nasa, nasa9, json, loaded, vib>>

\* p.nasas[i].T_low = v or p.nasas[i].T_high = v; the copy of the list is
\* shallow, so the caller's segments are the object's segments
SetSegmentT9 ==
    /\ pc = "obj9"
    /\ \E i \in DOMAIN nasa9.nasas, v \in 1..MaxT :
        \/ /\ nasa9' = [nasa9 EXCEPT !.nasas[i].T_low = v]
           /\ ev' = [NoEv EXCEPT !.op = "segment.T_low="]
        \/ /\ nasa9' = [nasa9 EXCEPT !.nasas[i].T_high = v]
           /\ ev' = [NoEv EXCEPT !.op = "segment.T_high="]
    /\ UNCHANGED <<pc, T_in, CpoR_in, T_mid_in, ref, loop, fit, warns, nasa, json, loaded, vib>>

\* the values given as limit
Limits == {"min", "max", "mean", ""}

\* p._get_T_limit(limit)
GetTLimit9 ==
    /\ pc = "obj9"
    /\ \E limit \in Limits :
        LET r == Nasa9_get_T_limit(nasa9.nasas, limit)
        IN  ev' = [NoEv EXCEPT !.op = "_get_T_limit", !.arg = limit,
                               !.T = r.val, !.raised = r.raised,
                               !.msg = IF limit \notin {"min", "max"}
                                       THEN T_limit_message(limit) ELSE <<>>]
    /\ UNCHANGED <<pc, T_in, CpoR_in, T_mid_in, ref, loop, fit, warns, nasa, nasa9, json, loaded, vib>>

NextMut9 ==
    \/ Nasa9New \/ SetNasas9 \/ PopNasas9 \/ PopCallerList9 \/ SetSegmentT9
    \/ GetTLimit9

SpecMut9 == Init /\ [][NextMut9]_vars

----------------------------------------------------------------------------
(* pmutt.statmech.vib: the wavenumbers of HarmonicVib and QRRHOVib *)

\* most vibrational modes of an object
MaxModes == 2

\* _get_valid_vib_wavenumbers(wavenumbers, substitute)
RECURSIVE _get_valid_vib_wavenumbers(_, _)
_get_valid_vib_wavenumbers(wavenumbers, substitute) ==
    IF wavenumbers = <<>> THEN <<>>
    ELSE LET wavenumber == wavenumbers[Len(wavenumbers)]
             wavenumbers_out ==
                 _get_valid_vib_wavenumbers(
                     SubSeq(wavenumbers, 1, Len(wavenumbers) - 1), substitute)
         IN  IF wavenumber > 0 THEN Append(wavenumbers_out, wavenumber)
             ELSE IF ~substitute.none THEN Append(wavenumbers_out, substitute.val)
             ELSE wavenumbers_out

\* pmutt.constants.wavenumber_to_temp on an array: h*c/kb = 1.4388 K cm
wavenumber_to_temp(wavenumbers) ==
    [i \in DOMAIN wavenumbers |-> RMul(Rat(wavenumbers[i]), Norm(14388, 10000))]

\* the vib_wavenumbers setter of HarmonicVib and of QRRHOVib
Vib_set_vib_wavenumbers(self, val) ==
    LET valid == _get_valid_vib_wavenumbers(val, self.imaginary_substitute)
    IN  [self EXCEPT !.vib_wavenumbers = val,
                     !._valid_vib_wavenumbers = valid,
                     !._valid_vib_temperatures = wavenumber_to_temp(valid)]

\* __init__: imaginary_substitute is assigned, then vib_wavenumbers
Vib__init__(class, vib_wavenumbers, imaginary_substitute) ==
    Vib_set_vib_wavenumbers(
        [NoVib EXCEPT !.class = class, !.imaginary_substitute = imaginary_substitute],
        vib_wavenumbers)

\* the wavenumbers given (imaginary ones are negative) and the substitutes
Wavenumbers == UNION {[1..n -> {-1, 0, 2, 3}] : n \in 0..MaxModes}
Substitutes == {[none |-> TRUE], [none |-> FALSE, val |-> 1]}

VibNew ==
    /\ pc = "idle"
    /\ \E class \in {"HarmonicVib", "QRRHOVib"}, w \in Wavenumbers, sub \in Substitutes :
        vib' = Vib__init__(class, w, sub)
    /\ pc' = "vib"
    /\ UNCHANGED <<T_in, CpoR_in, T_mid_in, ref, loop, fit, warns, nasa, nasa9, json, loaded, ev>>

\* obj.vib_wavenumbers = val
SetVibWavenumbers ==
    /\ pc = "vib"
    /\ \E w \in Wavenumbers : vib' = Vib_set_vib_wavenumbers(vib, w)
    /\ ev' = [NoEv EXCEPT !.op = "vib_wavenumbers="]
    /\ UNCHANGED <<pc, T_in, CpoR_in, T_mid_in, ref, loop, fit, warns, nasa, nasa9, json, loaded>>

\* obj.imaginary_substitute = val: a plain attribute
SetImaginarySubstitute ==
    /\ pc = "vib"
    /\ \E sub \in Substitutes : vib' = [vib EXCEPT !.imaginary_substitute = sub]
    /\ ev' = [NoEv EXCEPT !.op = "imaginary_substitute="]
    /\ UNCHANGED <<pc, T_in, CpoR_in, T_mid_in, ref, loop, fit, warns, nasa, nasa9, json, loaded>>

\* print_calc_wavenumbers: HarmonicVib prints self._valid_vib_wavenumbers,
\* QRRHOVib prints _get_valid_vib_wavenumbers of the current attributes
PrintCalcWavenumbers ==
    /\ pc = "vib"
    /\ ev' = [NoEv EXCEPT !.op = "print_calc_wavenumbers",
                          !.vals = IF vib.class = "HarmonicVib"
                                   THEN vib._valid_vib_wavenumbers
                                   ELSE _get_valid_vib_wavenumbers(
                                            vib.vib_wavenumbers,
                                            vib.imaginary_substitute)]
    /\ UNCHANGED <<pc, T_in, CpoR_in, T_mid_in, ref, loop, fit, warns, nasa, nasa9, json, loaded, vib>>

\* a thermodynamic calculation (get_CvoR, get_ZPE, get_UoRT, get_SoR, ...):
\* the vibrational temperatures it reads
GetVibQuantity ==
    /\ pc = "vib"
    /\ ev' = [NoEv EXCEPT !.op = "get_CvoR", !.vals = vib._valid_vib_temperatures]
    /\ UNCHANGED <<pc, T_in, CpoR_in, T_mid_in, ref, loop, fit, warns, nasa, nasa9, json, loaded, vib>>

NextVib ==
    \/ VibNew \/ SetVibWavenumbers \/ SetImaginarySubstitute
    \/ PrintCalcWavenumbers \/ GetVibQuantity

SpecVib == Init /\ [][NextVib]_vars

----------------------------------------------------------------------------
(* The helper functions of the fits, called on their own *)

\* longest list of sample temperatures given to a helper
MaxLen == 12

\* the list 1..n with the entries at i and j exchanged (sorted when i = j)
Swapped(n, i, j) ==
    [k \in 1..n |-> IF k = i THEN j ELSE IF k = j THEN i ELSE k]

\* the sample temperatures: distinct, in ascending order or with two exchanged
SampleLists == {Swapped(n, i, j) : n \in 0..MaxLen, i \in 1..MaxLen, j \in 1..MaxLen}

\* _fit_CpoR with T_mid=None on non-degenerate data, up to its loop:
\* the candidates it will evaluate
CallDefaultCandidates ==
    /\ pc = "idle"
    /\ \E T \in SampleLists :
        /\ T_in' = T
        /\ ev' = [NoEv EXCEPT !.op = "T[5:-5]", !.a = DefaultCandidates(T)]
    /\ pc' = "fn"
    /\ UNCHANGED <<CpoR_in, T_mid_in, ref, loop, fit, warns, nasa, nasa9, json, loaded, vib>>

\* the coefficient vectors given to the evaluators and to the Jacobian
Unit9(k) == [i \in 1..9 |-> IF i = k THEN One ELSE Zero]

CoefArgs9 == {zeros(9), Coef9A} \cup {Unit9(k) : k \in 1..9}

\* get_nasa9_HoRT(a, T) called on its own
CallNasa9HoRT ==
    /\ pc = "idle"
    /\ \E a \in CoefArgs9, T \in 1..MaxT :
        /\ fit' = [NoFit EXCEPT !.a = <<a>>]
        /\ ev' = [NoEv EXCEPT !.op = "get_nasa9_HoRT", !.T = T,
                              !.val = get_nasa9_HoRT(a, T)]
    /\ pc' = "fn"
    /\ UNCHANGED <<T_in, CpoR_in, T_mid_in, ref, loop, warns, nasa, nasa9, json, loaded, vib>>

\* _get_nasa9_mse_jacob(a, T, CpoR); the third entry is the literal 1.
_get_nasa9_mse_jacob(a, T, CpoR) ==
    LET error == [i \in DOMAIN T |-> RSub(get_nasa9_CpoR(a, T[i]), CpoR[i])]
        sum(k) == RSum([i \in DOMAIN T |-> RMul(error[i], RPow(Rat(T[i]), k))])
        sum_inv(k) ==
            RSum([i \in DOMAIN T |-> RDiv(error[i], RPow(Rat(T[i]), k))])
        arr == <<sum_inv(2), sum_inv(1), One, sum(1), sum(2), sum(3), sum(4),
                 Zero, Zero>>
    IN  [k \in 1..9 |-> RMul(RDiv(Rat(2), Rat(Len(T))), arr[k])]

\* the vectors at which the Jacobian is asked: the start x0 = np.zeros(9),
\* and steps along a3 and a4
JacobArgs == {zeros(9), Unit9(3), Unit9(4)}

\* _get_nasa9_mse_jacob called on the first N samples of a data set
CallJacob ==
    /\ pc = "idle"
    /\ \E a \in JacobArgs, CpoR \in DataSets9, N \in 1..NSamp :
        /\ T_in' = SubSeq(SampleT, 1, N)
        /\ CpoR_in' = SubSeq(CpoR, 1, N)
        /\ fit' = [NoFit EXCEPT !.a = <<a>>]
        /\ ev' = [NoEv EXCEPT !.op = "_get_nasa9_mse_jacob",
                              !.a = _get_nasa9_mse_jacob(a, SubSeq(SampleT, 1, N),
                                                         SubSeq(CpoR, 1, N))]
    /\ pc' = "fn"
    /\ UNCHANGED <<T_mid_in, ref, loop, warns, nasa, nasa9, json, loaded, vib>>

\* scipy.optimize.minimize(method='BFGS', fun=_get_nasa9_mse, ...).fun: the
\* mean squared error at the iterate returned, a finite number >= 0
minimize_fun(T1, T2, n_T) == {Zero, Norm(1, 4), Rat(1)}

\* the loop of _calc_T_mid_mse_nasa9 from interval i on: the results it can
\* end with.  n_model counts the calls of model.get_CpoR (n_T per interval),
\* n_min those of minimize.
RECURSIVE _calc_T_mid_mse_loop(_, _, _, _)
_calc_T_mid_mse_loop(T_iv, n_T, i, acc) ==
    IF i > Len(T_iv) - 1 THEN {acc}
    ELSE UNION {_calc_T_mid_mse_loop(T_iv, n_T, i + 1,
                    [mse |-> RAdd(acc.mse, f), model |-> acc.model + n_T,
                     minimize |-> acc.minimize + 1]) :
                f \in minimize_fun(T_iv[i], T_iv[i + 1], n_T)}

\* _calc_T_mid_mse_nasa9 without the test against T_high
_calc_T_mid_mse_nasa9_low_only(T_mid, T_low, T_high, n_T) ==
    IF \E i \in DOMAIN T_mid : T_mid[i] <= T_low
    THEN {[mse |-> inf, model |-> 0, minimize |-> 0]}
    ELSE _calc_T_mid_mse_loop(T_interval(T_low, T_mid, T_high), n_T, 1,
                              [mse |-> Zero, model |-> 0, minimize |-> 0])

\* _calc_T_mid_mse_nasa9(T_mid, T_low, T_high, model, n_T): the results
_calc_T_mid_mse_nasa9(T_mid, T_low, T_high, n_T) ==
    IF (\E i \in DOMAIN T_mid : T_mid[i] <= T_low)
       \/ (\E i \in DOMAIN T_mid : T_mid[i] >= T_high)
    THEN {[mse |-> inf, model |-> 0, minimize |-> 0]}
    ELSE _calc_T_mid_mse_loop(T_interval(T_low, T_mid, T_high), n_T, 1,
                              [mse |-> Zero, model |-> 0, minimize |-> 0])

\* the break points tried by Nelder-Mead: any values, in any order
BreakPoints == UNION {[1..n -> 0..(MaxT + 1)] : n \in 0..MaxBreaks}

\* the sizes n_T of the temperature grid of one interval
GridSizes == {2, 3}

\* _calc_T_mid_mse_nasa9 called as Nelder-Mead calls it
CallCalcTMidMse ==
    /\ pc = "idle"
    /\ \E T_mid \in BreakPoints, T_low \in 1..MaxT, T_high \in 1..MaxT,
          n_T \in GridSizes :
        \E r \in _calc_T_mid_mse_nasa9(T_mid, T_low, T_high, n_T) :
        /\ T_mid_in' = [none |-> FALSE, val |-> T_mid]
        /\ ev' = [NoEv EXCEPT !.op = "_calc_T_mid_mse_nasa9", !.val = r.mse,
                              !.kw = n_T,
                              !.calls = [T_low |-> T_low, T_high |-> T_high,
                                         model |-> r.model,
                                         minimize |-> r.minimize]]
    /\ pc' = "fn"
    /\ UNCHANGED <<T_in, CpoR_in, ref, loop, fit, warns, nasa, nasa9, json, loaded, vib>>

\* number of points of np.linspace(T_low, T_high) (50 in numpy)
LinspaceNum == 3

\* np.linspace(T_low, T_high) for T_high = T_low + (LinspaceNum - 1) * step
linspace(T_low, step) == [i \in 1..LinspaceNum |-> T_low + (i - 1) * step]

\* np.insert(T, index, value), index counted from 0
insert(T, index, value) ==
    SubSeq(T, 1, index) \o <<value>> \o SubSeq(T, index + 1, Len(T))

\* the insertion loop of Nasa.from_statmech from T_mid[x] on: [T, raised].
\* np.where(T > T_mid[x])[0][0] raises IndexError when no sample is above.
RECURSIVE insert_T_mid(_, _, _)
insert_T_mid(T, T_mid, x) ==
    IF x > Len(T_mid) THEN [T |-> T, raised |-> "none"]
    ELSE IF \E i \in DOMAIN T : T[i] = T_mid[x]
         THEN insert_T_mid(T, T_mid, x + 1)
         ELSE LET above == {i \in DOMAIN T : T[i] > T_mid[x]}
              IN  IF above = {} THEN [T |-> T, raised |-> "IndexError"]
                  ELSE insert_T_mid(insert(T, IMin(above) - 1, T_mid[x]), T_mid, x + 1)

\* the T_mid given to from_statmech: a number (made a tuple of one) or a
\* sequence of numbers, of any values
MaxGridT == 2 + (LinspaceNum - 1) * 2
StatmechTMid == UNION {[1..n -> 0..(MaxGridT + 1)] : n \in 1..2}

\* Nasa.from_statmech up to the end of the insertion of T_mid into T
CallStatmechGrid ==
    /\ pc = "idle"
    /\ \E T_low \in 1..2, step \in 1..2, T_mid \in StatmechTMid :
        LET r == insert_T_mid(linspace(T_low, step), T_mid, 1)
        IN  /\ T_in' = r.T
            /\ T_mid_in' = [none |-> FALSE, val |-> T_mid]
            /\ ev' = [NoEv EXCEPT !.op = "from_statmech", !.raised = r.raised,
                                  !.a = linspace(T_low, step),
                                  !.calls = [NoEv.calls EXCEPT
                                      !.T_low = T_low,
                                      !.T_high = T_low + (LinspaceNum - 1) * step]]
    /\ pc' = "fn"
    /\ UNCHANGED <<CpoR_in, ref, loop, fit, warns, nasa, nasa9, json, loaded, vib>>

\* the sample temperatures in ascending order or with two exchanged, and
\* Cp/R data that step from 1 to 5/2 at temperature k
SampleOrders == {Swapped(NSamp, i, j) : i \in 1..NSamp, j \in 1..NSamp}
StepData(T, k) == [i \in DOMAIN T |-> IF T[i] < k THEN Rat(1) ELSE Norm(5, 2)]

\* _get_CpoR_MSE(T, CpoR, T_mid) called on its own: (mse, p_low, p_high)
CallCpoRMSE ==
    /\ pc = "idle"
    /\ \E T \in SampleOrders, k \in 2..NSamp, T_m \in 1..NSamp :
        LET CpoR == StepData(T, k)
            Tl == extract(low_condition(T, T_m), T)
            Th == extract(high_condition(T, T_m), T)
            Cl == extract(low_condition(T, T_m), CpoR)
            Ch == extract(high_condition(T, T_m), CpoR)
        IN  /\ T_in' = T
            /\ CpoR_in' = CpoR
            /\ warns' = MSEWarnings(Len(Tl), Len(Th))
            /\ IF Tl = <<>> \/ Th = <<>>
               THEN \* np.polyfit: expected non-empty vector for x
                    /\ ev' = [NoEv EXCEPT !.op = "_get_CpoR_MSE", !.T = T_m,
                                          !.raised = "TypeError"]
                    /\ fit' = NoFit
               ELSE \E p_low \in polyfit(Tl, Cl), p_high \in polyfit(Th, Ch) :
                    /\ ev' = [NoEv EXCEPT !.op = "_get_CpoR_MSE", !.T = T_m,
                                          !.val = CpoR_MSE(T, CpoR, T_m, p_low, p_high)]
                    /\ fit' = [NoFit EXCEPT !.a_low = p_low, !.a_high = p_high]
    /\ pc' = "fn"
    /\ UNCHANGED <<T_mid_in, ref, loop, nasa, nasa9, json, loaded, vib>>

\* pmutt.io.cantera.obj_to_CTI --------------------------------------------
\* A text is the sequence of the lengths of its tokens, the pieces between
\* single spaces; token t of the text is t, and 0 is the closing '"""'.  A
\* line is [prefix, toks]: the number of characters before its first token
\* and the tokens on it, one space between two of them.

\* most tokens in a text, and most characters in a token
MaxTokens == 3
MaxTokenLen == 4

\* len(cti_str) for cti_str = ' '.join(tokens)
text_len(text) == Len(text) - 1 + SumLen(text)

\* len of entry t of cti_list
tok_len(text, t) == IF t = 0 THEN 3 ELSE text[t]

\* len(cti_lines[k])
line_chars(text, line) ==
    line.prefix + SumLen([k \in DOMAIN line.toks |-> tok_len(text, line.toks[k])])
    + (IF line.toks = <<>> THEN 0 ELSE Len(line.toks) - 1)

\* ' '*(max_line_len - line_len + 3): no character for a negative count
header_spaces(line_len, max_line_len) ==
    IF max_line_len - line_len + 3 > 0 THEN max_line_len - line_len + 3 ELSE 0

\* a limit that is max_line_len on the first line too
line_limit_max(n_lines, line_len, max_line_len) == max_line_len

\* line_limit: the first line is limited to line_len
line_limit(n_lines, line_len, max_line_len) ==
    IF n_lines = 1 THEN line_len ELSE max_line_len

\* the loop over cti_list from entry i (counted from 0) on
RECURSIVE cti_loop(_, _, _, _, _, _)
cti_loop(text, cti_list, i, cti_lines, line_len, max_line_len) ==
    IF i >= Len(cti_list) THEN cti_lines
    ELSE LET cti_val == cti_list[i + 1]
             n == Len(cti_lines)
             last == cti_lines[n]
         IN  IF i = 0
                \/ line_chars(text, last) + tok_len(text, cti_val) + 1
                       <= line_limit(n, line_len, max_line_len)
             THEN cti_loop(text, cti_list, i + 1,
                      [cti_lines EXCEPT ![n].toks = Append(@, cti_val)],
                      line_len, max_line_len)
             ELSE cti_loop(text, cti_list, i + 1,
                      Append(cti_lines,
                             [prefix |-> header_spaces(line_len, max_line_len),
                              toks |-> <<cti_val>>]),
                      line_len, max_line_len)

\* obj_to_CTI(obj, line_len, max_line_len) for an obj without to_CTI:
\* the text in double quotes, or the lines of the triple-quoted block
obj_to_CTI(text, line_len, max_line_len) ==
    IF text_len(text) < line_len - 2
    THEN [quoted |-> TRUE, lines |-> <<>>]
    ELSE [quoted |-> FALSE,
          lines |-> cti_loop(text, [k \in 1..Len(text) |-> k] \o <<0>>, 0,
                             <<[prefix |-> 3, toks |-> <<>>]>>,
                             line_len, max_line_len)]

\* the texts, and the values given for line_len and max_line_len
Texts == UNION {[1..n -> 0..MaxTokenLen] : n \in 1..MaxTokens}
LineLens == 7..10
MaxLineLens == 6..11

CallObjToCTI ==
    /\ pc = "idle"
    /\ \E text \in Texts, line_len \in LineLens, max_line_len \in MaxLineLens :
        /\ T_in' = text
        /\ ev' = [NoEv EXCEPT !.op = "obj_to_CTI", !.line_len = line_len,
                              !.max_line_len = max_line_len,
                              !.cti = obj_to_CTI(text, line_len, max_line_len)]
    /\ pc' = "fn"
    /\ UNCHANGED <<CpoR_in, T_mid_in, ref, loop, fit, warns, nasa, nasa9, json, loaded, vib>>

NextFn ==
    \/ CallDefaultCandidates \/ CallNasa9HoRT \/ CallJacob \/ CallCalcTMidMse
    \/ CallStatmechGrid \/ CallCpoRMSE \/ CallObjToCTI

SpecFn == Init /\ [][NextFn]_vars

----------------------------------------------------------------------------
(* Properties *)

\* from_data has returned a Nasa object
Fitted7 == pc = "obj" /\ ref.T_ref # 0
\* from_data has returned a Nasa9 object
Fitted9 == pc = "obj9" /\ ref.T_ref # 0

\* C1: in every Nasa object that from_data returns, H/RT at T_mid is the same
\* with a_low and with a_high, and so is S/R.
C1_Continuity7 ==
    Fitted7 =>
        /\ get_nasa_HoRT(nasa.a_low, nasa.T_mid[1]) = get_nasa_HoRT(nasa.a_high, nasa.T_mid[1])
        /\ get_nasa_SoR(nasa.a_low, nasa.T_mid[1]) = get_nasa_SoR(nasa.a_high, nasa.T_mid[1])

\* a fit whose two segments have different Cp/R polynomials, with the
\* reference away from T_mid and a high a6 that the offset has moved
C1_Witness ==
    /\ Fitted7
    /\ SubSeq(nasa.a_low, 1, 5) # SubSeq(nasa.a_high, 1, 5)
    /\ ref.T_ref # nasa.T_mid[1]
    /\ nasa.a_high[6] # RMul(RSub(ref.HoRT_ref,
                            get_nasa_HoRT([nasa.a_high EXCEPT ![6] = Zero], ref.T_ref)),
                            Rat(ref.T_ref))

\* C2: in every Nasa9 object that from_data returns, at every interior break
\* point T_mid[i] the segments i and i+1 give the same H/RT and the same S/R.
C2_Continuity9 ==
    Fitted9 =>
        \A i \in DOMAIN T_mid_in.val :
            /\ get_nasa9_HoRT(nasa9.nasas[i].a, T_mid_in.val[i])
                 = get_nasa9_HoRT(nasa9.nasas[i + 1].a, T_mid_in.val[i])
            /\ get_nasa9_SoR(nasa9.nasas[i].a, T_mid_in.val[i])
                 = get_nasa9_SoR(nasa9.nasas[i + 1].a, T_mid_in.val[i])

\* a fit of three segments with different coefficients, from varying data
C2_Witness ==
    /\ Fitted9
    /\ ~fit.alias
    /\ Len(T_mid_in.val) = 2
    /\ SubSeq(nasa9.nasas[1].a, 1, 7) # SubSeq(nasa9.nasas[2].a, 1, 7)
    /\ SubSeq(nasa9.nasas[2].a, 1, 7) # SubSeq(nasa9.nasas[3].a, 1, 7)
    /\ ref.T_ref > T_mid_in.val[1]

\* C3: a Nasa object that from_data returns, with T_low <= T_ref <= T_high and
\* no misc model, gives get_HoRT(T_ref) = HoRT_ref and get_SoR(T_ref) = SoR_ref,
\* on whichever side of T_mid the reference lies.
C3_ReferenceReproduced ==
    (Fitted7 /\ nasa.T_low <= ref.T_ref /\ ref.T_ref <= nasa.T_high
             /\ nasa.misc_models = <<>>) =>
        /\ Nasa_get_HoRT(nasa, ref.T_ref, 0).val = ref.HoRT_ref
        /\ Nasa_get_SoR(nasa, ref.T_ref, 0).val = ref.SoR_ref

\* C4: after a NASA9 fit with at least one break point, segment 0 gives
\* H/RT = HoRT_ref and S/R = SoR_ref at T_ref, for constant Cp/R data too.
C4_Segment0Anchored ==
    (Fitted9 /\ Len(T_mid_in.val) >= 1) =>
        /\ get_nasa9_HoRT(nasa9.nasas[1].a, ref.T_ref) = ref.HoRT_ref
        /\ get_nasa9_SoR(nasa9.nasas[1].a, ref.T_ref) = ref.SoR_ref

\* C5: a get_GoRT that returns gives get_HoRT minus get_SoR of the same object,
\* temperature and mixture argument, and a get_G that returns gives
\* get_GoRT times T times R(units/K), for Nasa and for Nasa9.
C5_GibbsFromHS ==
    /\ (pc = "called" /\ ev.raised = "none" /\ ev.op = "get_GoRT") =>
            ev.val = RSub(Nasa_get_HoRT(nasa, ev.T, ev.kw).val,
                          Nasa_get_SoR(nasa, ev.T, ev.kw).val)
    /\ (pc = "called" /\ ev.raised = "none" /\ ev.op = "get_G") =>
            ev.val = RMul(RMul(RSub(Nasa_get_HoRT(nasa, ev.T, ev.kw).val,
                                    Nasa_get_SoR(nasa, ev.T, ev.kw).val),
                               Rat(ev.T)),
                          R(PerK(ev.units)))
    /\ (pc = "called9" /\ ev.raised = "none" /\ ev.op = "get_GoRT") =>
            ev.val = RSub(Nasa9_get_HoRT(nasa9, ev.T, ev.kw).val,
                          Nasa9_get_SoR(nasa9, ev.T, ev.kw).val)
    /\ (pc = "called9" /\ ev.raised = "none" /\ ev.op = "get_G") =>
            ev.val = RMul(RMul(RSub(Nasa9_get_HoRT(nasa9, ev.T, ev.kw).val,
                                    Nasa9_get_SoR(nasa9, ev.T, ev.kw).val),
                               Rat(ev.T)),
                          R(PerK(ev.units)))

\* get_G of a Nasa object with a misc model, called with a mixture argument
C5_Witness ==
    /\ pc = "called" /\ ev.raised = "none" /\ ev.op = "get_G"
    /\ nasa.misc_models # <<>> /\ ev.kw = 1
    /\ ev.T >= nasa.T_mid[1]
    /\ ev.val # Zero

\* the median of sorted samples
Median(T) ==
    IF Len(T) % 2 = 1 THEN Rat(T[(Len(T) + 1) \div 2])
    ELSE Norm(T[Len(T) \div 2] + T[(Len(T) \div 2) + 1], 2)

\* C6: from constant Cp/R = 2.5, from_data returns a_low and a_high that are
\* zero except a1 = 2.5, get_CpoR returns 2.5, and T_mid is the median of the
\* sample temperatures.
C6_ConstantData ==
    (Fitted7 /\ \A i \in DOMAIN CpoR_in : CpoR_in[i] = Norm(5, 2)) =>
        /\ nasa.a_low = [zeros(7) EXCEPT ![1] = Norm(5, 2)]
        /\ nasa.a_high = [zeros(7) EXCEPT ![1] = Norm(5, 2)]
        /\ \A T \in nasa.T_low..nasa.T_high : Nasa_get_CpoR(nasa, T, 0).val = Norm(5, 2)
        /\ Rat(nasa.T_mid[1]) = Median(T_in)

\* C7: Nasa9.from_dict(p.to_dict()) returns an object with the segments of p,
\* and every key that the two from_dict read is written by the matching to_dict.
C7_DictRoundTrip ==
    pc = "loaded9" =>
        /\ ev.raised = "none"
        /\ loaded.nasas = nasa9.nasas
        /\ Range(Nasa9_from_dict_reads) \subseteq DOMAIN json
        /\ \A i \in DOMAIN json.nasa :
              Range(SingleNasa9_from_dict_reads) \subseteq DOMAIN json.nasa[i]

\* C8 as stated: get_a never raises, returns a_low when T < T_mid and a_high
\* otherwise, and warns exactly when T < T_low or T > T_high, for every object
\* of the constructor.
C8_GetA_AnyObject ==
    (pc = "called" /\ ev.op = "get_a") =>
        /\ ev.raised = "none"
        /\ ev.a = IF ev.T < nasa.T_mid[1] THEN nasa.a_low ELSE nasa.a_high
        /\ ev.warn <=> (ev.T < nasa.T_low \/ ev.T > nasa.T_high)

\* the object has T_low <= T_mid <= T_high (a list T_mid counts by its first
\* element, which get_a has put in its place)
Ordered7 ==
    /\ nasa.T_mid # <<>>
    /\ nasa.T_low <= nasa.T_mid[1]
    /\ nasa.T_mid[1] <= nasa.T_high

\* C8, amended: for an object with T_low <= T_mid <= T_high, get_a does not
\* raise, returns a_low when T < T_mid and a_high otherwise, and warns exactly
\* when T < T_low or T > T_high.
C8_GetA_Ordered ==
    (pc = "called" /\ ev.op = "get_a" /\ Ordered7) =>
        /\ ev.raised = "none"
        /\ ev.a = IF ev.T < nasa.T_mid[1] THEN nasa.a_low ELSE nasa.a_high
        /\ ev.warn <=> (ev.T < nasa.T_low \/ ev.T > nasa.T_high)

\* get_a at T = T_mid below T_high gives a_high without a warning
C8_Witness ==
    /\ pc = "called" /\ ev.op = "get_a" /\ Ordered7
    /\ nasa.T_low < nasa.T_mid[1] /\ nasa.T_mid[1] < nasa.T_high
    /\ ev.T = nasa.T_mid[1]
    /\ ev.a = nasa.a_high
    /\ ~ev.warn

\* the segments whose closed interval holds T
Covering(T) ==
    {i \in DOMAIN nasa9.nasas : nasa9.nasas[i].T_low <= T /\ T <= nasa9.nasas[i].T_high}

\* each segment has T_low <= T_high and starts where the one before it ends
Contiguous9 ==
    /\ \A i \in DOMAIN nasa9.nasas : nasa9.nasas[i].T_low <= nasa9.nasas[i].T_high
    /\ \A i \in 1..(Len(nasa9.nasas) - 1) : nasa9.nasas[i].T_high = nasa9.nasas[i + 1].T_low

\* C9 as stated: _get_nasa returns the first segment holding T, and raises
\* ValueError exactly when T is below the global T_low or above the global T_high.
C9_GetNasa_GlobalRange ==
    (pc = "called9" /\ ev.op = "_get_nasa") =>
        /\ ev.raised = "none" => (ev.seg \in Covering(ev.T)
                                   /\ \A j \in Covering(ev.T) : ev.seg <= j)
        /\ ev.raised = "ValueError" <=> (ev.T < nasa9.T_low \/ ev.T > nasa9.T_high)

\* C9, amended: _get_nasa returns the first segment holding T, and raises
\* ValueError exactly when no segment holds T; with contiguous segments that
\* is exactly when T is below the global T_low or above the global T_high.
C9_GetNasa_Covering ==
    (pc = "called9" /\ ev.op = "_get_nasa") =>
        /\ ev.raised = "none" => (ev.seg \in Covering(ev.T)
                                   /\ \A j \in Covering(ev.T) : ev.seg <= j)
        /\ ev.raised = "ValueError" <=> Covering(ev.T) = {}
        /\ Contiguous9 =>
              (ev.raised = "ValueError" <=> (ev.T < nasa9.T_low \/ ev.T > nasa9.T_high))

\* T at the break point of two contiguous segments resolves to the lower one
C9_Witness ==
    /\ pc = "called9" /\ ev.op = "_get_nasa"
    /\ Len(nasa9.nasas) = 2 /\ Contiguous9
    /\ nasa9.nasas[1].T_low < nasa9.nasas[1].T_high
    /\ nasa9.nasas[2].T_low < nasa9.nasas[2].T_high
    /\ ev.T = nasa9.nasas[1].T_high
    /\ Covering(ev.T) = {1, 2}
    /\ ev.seg = 1

\* C10: the candidates are evaluated in order; the loop stops after the first
\* candidate whose MSE is greater than its predecessor's and evaluates no
\* later one; the result is the evaluated candidate of least MSE, the first
\* of them when several have it.
C10_EarlyStopAndSelect ==
    pc \in {"fit_loop", "fitted"} =>
        /\ Len(loop.mse_list) = loop.i
        /\ Len(loop.all_a_low) = loop.i /\ Len(loop.all_a_high) = loop.i
        /\ loop.i <= Len(loop.T_mid)
        /\ \A j \in 1..loop.i :
              loop.mse_list[j] = CpoR_MSE(T_in, CpoR_in, loop.T_mid[j],
                                          loop.all_a_low[j], loop.all_a_high[j])
        /\ \A j \in 2..(loop.i - 1) : ~RLt(loop.mse_list[j - 1], loop.mse_list[j])
        /\ loop.brk <=> (loop.i >= 2 /\ RLt(loop.mse_list[loop.i - 1], loop.mse_list[loop.i]))
        /\ (pc = "fitted" /\ loop.i > 0) =>
              /\ loop.brk \/ loop.i = Len(loop.T_mid)
              /\ \E k \in 1..loop.i :
                    /\ \A j \in 1..loop.i : RLe(loop.mse_list[k], loop.mse_list[j])
                    /\ \A j \in 1..(k - 1) : RLt(loop.mse_list[k], loop.mse_list[j])
                    /\ fit.T_mid = loop.T_mid[k]
                    /\ fit.a_low = Reverse(loop.all_a_low[k]) \o <<Zero, Zero>>
                    /\ fit.a_high = Reverse(loop.all_a_high[k]) \o <<Zero, Zero>>

\* the loop stopped at the second candidate and left a later one unevaluated
C10_Witness ==
    /\ pc = "fitted"
    /\ loop.brk
    /\ loop.i = 2 /\ loop.i < Len(loop.T_mid)
    /\ RLt(loop.mse_list[1], loop.mse_list[2])
    /\ fit.T_mid = loop.T_mid[1]

\* the sample positions holding the k-th smallest to the k-th largest value
BetweenKth(T, k) ==
    {i \in DOMAIN T :
        /\ Cardinality({j \in DOMAIN T : T[j] < T[i]}) >= k - 1
        /\ Cardinality({j \in DOMAIN T : T[j] > T[i]}) >= k - 1}

\* s lists the values of T at the positions P, each once, in ascending order
AscendingListOf(s, T, P) ==
    /\ Len(s) = Cardinality(P)
    /\ Range(s) = {T[i] : i \in P}
    /\ \A i \in 1..(Len(s) - 1) : s[i] < s[i + 1]

\* C11: without T_mid, the candidates are the samples from the
\* 6th-smallest to the 6th-largest, each once, in ascending order.
C11_DefaultCandidates ==
    (pc = "fn" /\ ev.op = "T[5:-5]") =>
        AscendingListOf(ev.a, T_in, BetweenKth(T_in, 6))

\* the number of samples that a condition selects
Count(condition) == Cardinality({i \in DOMAIN condition : condition[i]})

\* C12: a candidate that leaves fewer than 5 samples (0 to 4) in the low or in
\* the high partition makes _get_CpoR_MSE warn, and the fit goes on: an MSE
\* and two coefficient arrays are returned and nothing is raised.
C12_SmallPartitionNotFatal ==
    /\ (pc = "raised" /\ ev.op = "from_data") => ev.raised # "TypeError"
    /\ pc \in {"fit_loop", "fitted"} =>
          \A j \in 1..loop.i :
              /\ Count(low_condition(T_in, loop.T_mid[j])) < 5 => "low" \in warns
              /\ Count(high_condition(T_in, loop.T_mid[j])) < 5 => "high" \in warns
              /\ Len(loop.all_a_low[j]) = 5 /\ Len(loop.all_a_high[j]) = 5

\* C13: Cp/R data with a non-finite value (nan, +inf, -inf), or constant data,
\* makes the NASA7 fit skip the fitting and return all-zero leading
\* coefficients, with T_mid the median sample temperature whatever T_mid was
\* supplied.
C13_NonFiniteSkipsFit ==
    (pc # "idle" /\ (\/ \E i \in DOMAIN CpoR_in : ~isfinite(CpoR_in[i])
                     \/ \A i, j \in DOMAIN CpoR_in : CpoR_in[i] = CpoR_in[j])) =>
        /\ pc \in {"fitted", "obj"}
        /\ SubSeq(fit.a_low, 1, 5) = zeros(5)
        /\ SubSeq(fit.a_high, 1, 5) = zeros(5)
        /\ Rat(fit.T_mid) = Median(T_in)

\* C14: whatever is done to a Nasa9 object (a new list assigned to nasas, the
\* list of the getter or the caller's list mutated, a bound of a segment
\* changed), its T_low is the least T_low and its T_high the greatest T_high
\* of its current segments.
C14_BoundsFollowSegments ==
    (pc = "obj9" /\ nasa9.nasas # <<>>) =>
        /\ nasa9.T_low = IMin({nasa9.nasas[i].T_low : i \in DOMAIN nasa9.nasas})
        /\ nasa9.T_high = IMax({nasa9.nasas[i].T_high : i \in DOMAIN nasa9.nasas})

\* C18: on an object that has segments, _get_T_limit('min') returns the least
\* segment T_low and _get_T_limit('max') the greatest segment T_high; any
\* other limit raises ValueError with the value in its message; the call
\* leaves T_low, T_high and the segments as they were.
C18_GetTLimit ==
    /\ [](  (ev.op = "_get_T_limit" /\ nasa9.nasas # <<>>) =>
              /\ ev.arg = "min" =>
                    /\ ev.raised = "none"
                    /\ \E i \in DOMAIN nasa9.nasas : ev.T = nasa9.nasas[i].T_low
                    /\ \A i \in DOMAIN nasa9.nasas : ev.T <= nasa9.nasas[i].T_low
              /\ ev.arg = "max" =>
                    /\ ev.raised = "none"
                    /\ \E i \in DOMAIN nasa9.nasas : ev.T = nasa9.nasas[i].T_high
                    /\ \A i \in DOMAIN nasa9.nasas : ev.T >= nasa9.nasas[i].T_high
              /\ ev.arg \notin {"min", "max"} =>
                    /\ ev.raised = "ValueError"
                    /\ \E k \in DOMAIN ev.msg : ev.msg[k] = ev.arg  )
    /\ [][ev'.op = "_get_T_limit" => nasa9' = nasa9]_vars

\* an unsupported limit asked of an object with two segments
C18_Witness ==
    /\ ev.op = "_get_T_limit" /\ ev.arg = "mean"
    /\ ev.raised = "ValueError"
    /\ Len(nasa9.nasas) = 2
    /\ nasa9.nasas[1].T_low # nasa9.nasas[2].T_low

C16_Jacobian ==
    (pc = "fn" /\ ev.op = "_get_nasa9_mse_jacob") =>
        LET N == Len(T_in)
            residual == [i \in 1..N |-> RSub(get_nasa9_CpoR(fit.a[1], T_in[i]),
                                             CpoR_in[i])]
            basis(k, T) == IF k = 1 THEN RDiv(One, RPow(Rat(T), 2))
                           ELSE IF k = 2 THEN RDiv(One, Rat(T))
                           ELSE RPow(Rat(T), k - 3)
        IN  /\ \A k \in 1..7 :
                ev.a[k] = RMul(RDiv(Rat(2), Rat(N)),
                               RSum([i \in 1..N |-> RMul(residual[i], basis(k, T_in[i]))]))
            /\ ev.a[8] = Zero /\ ev.a[9] = Zero

\* C17: get_nasa9_HoRT(a, T) is -a1*T^-2/2 + a2*ln(T)/T + a3 + a4*T/2
\* + a5*T^2/3 + a6*T^3/4 + a7*T^4/5 + a8/T, without a9.
C17_HoRT9Form ==
    (pc = "fn" /\ ev.op = "get_nasa9_HoRT") =>
        LET a == fit.a[1]
            t == Rat(ev.T)
        IN  ev.val = RSum(<<RNeg(RDiv(RDiv(a[1], RPow(t, 2)), Rat(2))),
                            RDiv(RMul(a[2], log(ev.T)), t),
                            a[3],
                            RDiv(RMul(a[4], t), Rat(2)),
                            RDiv(RMul(a[5], RPow(t, 2)), Rat(3)),
                            RDiv(RMul(a[6], RPow(t, 3)), Rat(4)),
                            RDiv(RMul(a[7], RPow(t, 4)), Rat(5)),
                            RDiv(a[8], t)>>)

\* C19: a call of get_a, get_CpoR, get_HoRT, get_SoR, get_GoRT or of a
\* dimensional variant leaves T_low, T_mid, T_high, a_low and a_high of the
\* Nasa object as they were, whatever T_mid the constructor was given, a
\* list included.
C19_GettersLeaveObject ==
    [][(pc = "obj" /\ pc' = "called") =>
          /\ nasa'.T_low = nasa.T_low
          /\ nasa'.T_mid = nasa.T_mid /\ nasa'.T_mid_is_list = nasa.T_mid_is_list
          /\ nasa'.T_high = nasa.T_high
          /\ nasa'.a_low = nasa.a_low /\ nasa'.a_high = nasa.a_high]_vars

\* C20: for Nasa and for Nasa9, get_Cp(T, units, raise_error, raise_warning,
\* **kwargs) is get_CpoR(T, raise_error, raise_warning, **kwargs) times
\* R(units): the arguments of the misc models are passed on as get_H, get_S
\* and get_G pass them.
C20_CpPassesArguments ==
    /\ (pc = "called" /\ ev.op = "get_Cp" /\ ev.raised = "none") =>
          ev.val = RMul(Nasa_get_CpoR(nasa, ev.T, ev.kw).val, R(ev.units))
    /\ (pc = "called9" /\ ev.op = "get_Cp" /\ ev.raised = "none") =>
          ev.val = RMul(Nasa9_get_CpoR(nasa9, ev.T, ev.kw).val, R(ev.units))

\* C21: a Nasa9 returned by from_data has len(T_mid) + 1 segments; each has
\* T_low < T_high, each starts where the one before it ends, the first starts
\* at the lowest sample temperature and the last ends at the highest.
C21_SegmentsOrdered ==
    Fitted9 =>
        /\ Len(nasa9.nasas) = Len(T_mid_in.val) + 1
        /\ \A i \in DOMAIN nasa9.nasas : nasa9.nasas[i].T_low < nasa9.nasas[i].T_high
        /\ \A i \in 1..(Len(nasa9.nasas) - 1) :
              nasa9.nasas[i].T_high = nasa9.nasas[i + 1].T_low
        /\ nasa9.nasas[1].T_low = IMin(Range(T_in))
        /\ nasa9.nasas[Len(nasa9.nasas)].T_high = IMax(Range(T_in))

\* C22: Nasa.from_model with T_low < T_high completes and returns a Nasa
\* object whose T_mid lies in [T_low, T_high] and whose H/RT and S/R at T_mid
\* are the reference values taken from the model at T_mid.
C22_FromModelReturns ==
    ev.op = "from_model" =>
        /\ pc = "obj" /\ ev.raised = "none"
        /\ ev.calls.T_low <= nasa.T_mid[1] /\ nasa.T_mid[1] <= ev.calls.T_high
        /\ get_nasa_HoRT(nasa.a_low, nasa.T_mid[1]) = ref.HoRT_ref
        /\ get_nasa_SoR(nasa.a_low, nasa.T_mid[1]) = ref.SoR_ref

\* C23: in Nasa.from_statmech the insertion of the supplied T_mid never
\* raises, and afterwards T is strictly increasing, holds every supplied
\* T_mid once, still holds every point of the even grid, and has T_low as its
\* least and T_high as its greatest entry.
C23_GridAfterInsertion ==
    (pc = "fn" /\ ev.op = "from_statmech") =>
        /\ ev.raised = "none"
        /\ \A i \in 1..(Len(T_in) - 1) : T_in[i] < T_in[i + 1]
        /\ \A x \in DOMAIN T_mid_in.val :
              Cardinality({i \in DOMAIN T_in : T_in[i] = T_mid_in.val[x]}) = 1
        /\ Range(ev.a) \subseteq Range(T_in)
        /\ IMin(Range(T_in)) = ev.calls.T_low
        /\ IMax(Range(T_in)) = ev.calls.T_high

\* C24: a sample temperature equal to the T_mid of the Nasa object that
\* from_data returns is evaluated by get_a with the coefficients of the
\* partition in which _get_CpoR_MSE fitted that sample.
C24_BreakPointSameSegment ==
    Fitted7 =>
        \A i \in DOMAIN T_in :
            T_in[i] = nasa.T_mid[1] =>
                Nasa_get_a(nasa, T_in[i]).a =
                    IF low_condition(T_in, nasa.T_mid[1])[i] THEN nasa.a_low
                    ELSE nasa.a_high

\* C25: when _fit_CpoR9 has fitted the N + 1 segments of an ascending list of
\* break points inside (T_low, T_high), every sample, the one at the global
\* T_low included, was in the data of exactly one segment's fit.
C25_EverySampleFitted ==
    (pc \in {"fitted9", "obj9"} /\ fit.cond # <<>>
     /\ \A k \in DOMAIN T_mid_in.val :
            /\ IMin(Range(T_in)) < T_mid_in.val[k] /\ T_mid_in.val[k] < IMax(Range(T_in))
            /\ k > 1 => T_mid_in.val[k - 1] < T_mid_in.val[k]) =>
        \A i \in DOMAIN T_in :
            Cardinality({n \in DOMAIN fit.cond : fit.cond[n][i]}) = 1

\* C26: a call of get_CpoR, get_HoRT or get_SoR of a Nasa, or of get_HoRT of
\* a Nasa9, with a sequence of temperatures that returns gives at each
\* position the value of the call with that one temperature, for sequences
\* of integers as for sequences of floats.
C26_ArrayAsScalar ==
    /\ (pc = "called" /\ ev.arg = "array" /\ ev.raised = "none") =>
          /\ Len(ev.vals) = Len(T_in)
          /\ \A i \in DOMAIN T_in :
                ev.vals[i] = Nasa_get_scalar(nasa, ev.op, T_in[i], ev.kw).val
    /\ (pc = "called9" /\ ev.arg = "array" /\ ev.raised = "none") =>
          /\ Len(ev.vals) = Len(T_in)
          /\ \A i \in DOMAIN T_in :
                ev.vals[i] = Nasa9_get_HoRT(nasa9, T_in[i], ev.kw).val

\* C27: from finite, non-degenerate data with T_mid not supplied, _fit_CpoR
\* does not raise, evaluates at least one candidate, and returns a T_mid
\* that is a sample temperature and two arrays of 7 coefficients ending in
\* two zeros.
C27_DefaultCandidatesSuffice ==
    (pc \in {"fit_loop", "fitted", "obj", "raised"} /\ ev.op # "from_model"
     /\ T_mid_in.none /\ ~IsDegenerate(CpoR_in)
     /\ \A i \in DOMAIN CpoR_in : isfinite(CpoR_in[i])) =>
        /\ pc # "raised"
        /\ pc \in {"fitted", "obj"} =>
              /\ loop.i >= 1
              /\ \E i \in DOMAIN T_in : T_in[i] = fit.T_mid
              /\ Len(fit.a_low) = 7 /\ Len(fit.a_high) = 7
              /\ SubSeq(fit.a_low, 6, 7) = zeros(2)
              /\ SubSeq(fit.a_high, 6, 7) = zeros(2)

\* C28: the MSE that _get_CpoR_MSE returns is the mean over all samples of
\* the squared difference between the sample's Cp/R and the polynomial of
\* the sample's own partition at the sample's own temperature, whatever the
\* order of T and CpoR.
C28_MSEPerSample ==
    (pc = "fn" /\ ev.op = "_get_CpoR_MSE" /\ ev.raised = "none") =>
        ev.val = mean([i \in DOMAIN T_in |->
                    RPow(RSub(polyval(IF T_in[i] <= ev.T THEN fit.a_low
                                      ELSE fit.a_high, T_in[i]),
                              CpoR_in[i]), 2)])

\* the tokens of all lines of the block, in the order of the lines
RECURSIVE Flatten(_)
Flatten(lines) ==
    IF lines = <<>> THEN <<>>
    ELSE Flatten(SubSeq(lines, 1, Len(lines) - 1)) \o lines[Len(lines)].toks

\* C30: for a text whose tokens are each at most max_line_len minus the
\* continuation indent minus 3 characters long, obj_to_CTI returns the text
\* in double quotes on one line shorter than line_len, or a triple-quoted
\* block that holds the tokens once each in their order, followed by the
\* closing quotes, with a first line of at most line_len and later lines of
\* at most max_line_len characters.
C30_CTILines ==
    (pc = "fn" /\ ev.op = "obj_to_CTI"
     /\ \A t \in DOMAIN T_in :
            T_in[t] <= ev.max_line_len - header_spaces(ev.line_len, ev.max_line_len) - 3) =>
        IF ev.cti.quoted
        THEN text_len(T_in) + 2 < ev.line_len
        ELSE /\ Flatten(ev.cti.lines) = [k \in 1..Len(T_in) |-> k] \o <<0>>
             /\ line_chars(T_in, ev.cti.lines[1]) <= ev.line_len
             /\ \A n \in 2..Len(ev.cti.lines) :
                    line_chars(T_in, ev.cti.lines[n]) <= ev.max_line_len

\* a block of three lines, the first and the second filled to their limits
C30_Witness ==
    /\ pc = "fn" /\ ev.op = "obj_to_CTI" /\ ~ev.cti.quoted
    /\ \A t \in DOMAIN T_in :
            T_in[t] <= ev.max_line_len - header_spaces(ev.line_len, ev.max_line_len) - 3
    /\ Len(ev.cti.lines) >= 3
    /\ ev.max_line_len > ev.line_len
    /\ line_chars(T_in, ev.cti.lines[1]) = ev.line_len

\* C29: after any assignments to vib_wavenumbers and imaginary_substitute,
\* the wavenumbers that the calculations of a HarmonicVib or QRRHOVib use,
\* and those that print_calc_wavenumbers shows, are the valid wavenumbers of
\* the current vib_wavenumbers under the current imaginary_substitute.
C29_ValidWavenumbersCurrent ==
    pc = "vib" =>
        LET valid == _get_valid_vib_wavenumbers(vib.vib_wavenumbers,
                                                vib.imaginary_substitute)
        IN  /\ vib._valid_vib_wavenumbers = valid
            /\ ev.op = "print_calc_wavenumbers" => ev.vals = valid
            /\ ev.op = "get_CvoR" => ev.vals = wavenumber_to_temp(valid)

====
